---- MODULE Spec2Model ----
(***************************************************************************)
(* Model of lummao (src/src/lummao.cc): the PythonVisitor that walks a     *)
(* resolved LSL syntax tree and appends Python text to mStr, and the       *)
(* main() driver around it.                                                *)
(*                                                                         *)
(* mStr is a sequence of tokens.  A token is one operand of a `mStr <<`    *)
(* in the source; a literal that contains a line break is split at the     *)
(* break so that "\n" is always a token of its own, and one level of       *)
(* doTabs() indentation is the token "    ".                               *)
(***************************************************************************)
EXTENDS Integers, Sequences, FiniteSets, TLC

VARIABLES
    root,       \* the tree (or expression) handed to the visitor
    platform,   \* the build the binary runs on (decides out-of-range float casts)
    work,       \* the visitor's pending steps, innermost first (its call stack)
    mStr,       \* PythonVisitor::mStr
    mTabs,      \* PythonVisitor::mTabs
    tabSetters, \* _mOldTabs of the live ScopedTabSetter objects, innermost first
    visits,     \* mTabs at entry of every visit still running, innermost first
    lastVisit,  \* entry/exit mTabs of the visit that returned last
    fVal,       \* argument of the writeFloat call under test
    drv,        \* state of main(): position, arguments, environment, result
    sim         \* execution of a counted loop: native and emitted, side by side

vars == <<root, platform, work, mStr, mTabs, tabSetters, visits, lastVisit, fVal, drv, sim>>

-----------------------------------------------------------------------------
(* Generic helpers *)

RECURSIVE Flatten(_)
Flatten(ss) == IF ss = <<>> THEN <<>> ELSE Head(ss) \o Flatten(Tail(ss))

RECURSIVE Repeat(_, _)
Repeat(tok, n) == IF n <= 0 THEN <<>> ELSE <<tok>> \o Repeat(tok, n - 1)

Range(s) == {s[i] : i \in DOMAIN s}

\* does t occur as a contiguous run of tokens inside s
Occurs(t, s) ==
    \E i \in 0..(Len(s) - Len(t)) : SubSeq(s, i + 1, i + Len(t)) = t

-----------------------------------------------------------------------------
(* Types *)

LST_NULL == "LST_NULL"
LST_INTEGER == "LST_INTEGER"
LST_FLOATINGPOINT == "LST_FLOATINGPOINT"
LST_STRING == "LST_STRING"
LST_KEY == "LST_KEY"
LST_VECTOR == "LST_VECTOR"
LST_QUATERNION == "LST_QUATERNION"
LST_LIST == "LST_LIST"
LST_ERROR == "LST_ERROR"

PY_TYPE_NAMES ==
    [ty \in {LST_NULL, LST_INTEGER, LST_FLOATINGPOINT, LST_STRING, LST_KEY,
             LST_VECTOR, LST_QUATERNION, LST_LIST, LST_ERROR} |->
        CASE ty = LST_NULL -> "None"
          [] ty = LST_INTEGER -> "int"
          [] ty = LST_FLOATINGPOINT -> "float"
          [] ty = LST_STRING -> "str"
          [] ty = LST_KEY -> "Key"
          [] ty = LST_VECTOR -> "Vector"
          [] ty = LST_QUATERNION -> "Quaternion"
          [] ty = LST_LIST -> "list"
          [] ty = LST_ERROR -> "<ERROR>"]

-----------------------------------------------------------------------------
(* 32-bit floats.  A float is its bit pattern [sign, exp, man]: 1 sign     *)
(* bit, 8 exponent bits, 23 mantissa bits.  TLC integers are 32 bits wide, *)
(* so 64-bit integers are sequences of decimal digits, most significant    *)
(* first, with a separate sign.                                            *)

ManBits == 23
ExpBias == 127
ExpMax == 255
Int64Bits == 64

RECURSIVE Pow2(_)
Pow2(n) == IF n = 0 THEN 1 ELSE 2 * Pow2(n - 1)

Hidden == Pow2(ManBits)

IsNaN(f) == f.exp = ExpMax /\ f.man # 0
IsInf(f) == f.exp = ExpMax /\ f.man = 0
IsZero(f) == f.exp = 0 /\ f.man = 0

\* the exponent of 2 that scales the 24-bit significand of a normal float
Scale(f) == f.exp - ExpBias - ManBits

\* std::nearbyint((double)f) == (double)f : f has no fractional part
IsIntLike(f) ==
    \/ IsZero(f)
    \/ IsInf(f)
    \/ f.exp # 0 /\ f.exp # ExpMax /\ Scale(f) >= 0
    \/ f.exp # 0 /\ f.exp # ExpMax /\ Scale(f) < 0 /\ -Scale(f) <= ManBits
          /\ (Hidden + f.man) % Pow2(-Scale(f)) = 0

DigitTok == <<"0", "1", "2", "3", "4", "5", "6", "7", "8", "9">>
HexTok == <<"0", "1", "2", "3", "4", "5", "6", "7", "8", "9",
            "a", "b", "c", "d", "e", "f">>

RECURSIVE Reverse(_)
Reverse(s) == IF s = <<>> THEN <<>> ELSE Reverse(Tail(s)) \o <<Head(s)>>

RECURSIVE NatDigits(_)
NatDigits(n) == IF n < 10 THEN <<n>> ELSE NatDigits(n \div 10) \o <<n % 10>>

RECURSIVE TimesRev(_, _, _)
\* k times a number given least significant digit first
TimesRev(ds, k, carry) ==
    IF ds = <<>> THEN (IF carry = 0 THEN <<>> ELSE Reverse(NatDigits(carry)))
    ELSE LET d == (k * Head(ds)) + carry
         IN  <<d % 10>> \o TimesRev(Tail(ds), k, d \div 10)

Times(ds, k) == Reverse(TimesRev(Reverse(ds), k, 0))



RECURSIVE ShiftLeft(_, _)
\* ds * 2^n, 20 bits at a time
ShiftLeft(ds, n) ==
    IF n <= 20 THEN Times(ds, Pow2(n))
    ELSE ShiftLeft(Times(ds, Pow2(20)), n - 20)

INT64_MIN_DIGITS == <<9,2,2,3,3,7,2,0,3,6,8,5,4,7,7,5,8,0,8>>
INT64_MAX_DIGITS == <<9,2,2,3,3,7,2,0,3,6,8,5,4,7,7,5,8,0,7>>

\* the value of f fits int64_t: |f| < 2^63, or f = -2^63
FitsInt64(f) ==
    /\ f.exp # ExpMax
    /\ \/ f.exp = 0
       \/ Scale(f) + ManBits + 1 < Int64Bits
       \/ Scale(f) + ManBits + 1 = Int64Bits /\ f.man = 0 /\ f.sign = 1

\* (int64_t)f_val as [neg, digits].  In range the cast truncates toward
\* zero.  Out of range the cast is undefined: cvttss2si on x86_64 yields the
\* "integer indefinite" value INT64_MIN, fcvtzs on aarch64 saturates.
CastInt64(f, plat) ==
    IF FitsInt64(f)
    THEN IF f.exp = 0 \/ Scale(f) < -ManBits
         THEN [neg |-> FALSE, digits |-> <<0>>]
         ELSE IF Scale(f) < 0
              THEN LET m == (Hidden + f.man) \div Pow2(-Scale(f))
                   IN  [neg |-> (f.sign = 1 /\ m # 0), digits |-> NatDigits(m)]
              ELSE [neg |-> (f.sign = 1),
                    digits |-> ShiftLeft(NatDigits(Hidden + f.man), Scale(f))]
    ELSE IF plat = "x86_64" \/ f.sign = 1
         THEN [neg |-> TRUE, digits |-> INT64_MIN_DIGITS]
         ELSE [neg |-> FALSE, digits |-> INT64_MAX_DIGITS]

\* mStr << (int64_t) : decimal digits with a leading minus sign
Int64Tokens(i) ==
    (IF i.neg THEN <<"-">> ELSE <<>>) \o [k \in DOMAIN i.digits |-> DigitTok[i.digits[k] + 1]]

\* b_val[0..3]: the bytes of the float in host order (both builds are
\* little-endian)
FloatBytes(f) ==
    << f.man % 256,
       (f.man \div 256) % 256,
       ((f.exp % 2) * 128) + (f.man \div 65536),
       (f.sign * 128) + (f.exp \div 2) >>

\* "%02x"
Hex02(b) == <<HexTok[(b \div 16) + 1], HexTok[(b % 16) + 1]>>

\* std::to_string(f_val): a readable hint that nothing parses
FloatHint(f) == "to_string(f_val)"

Platforms == {"x86_64", "aarch64"}

writeFloat(f_val) ==
    IF IsIntLike(f_val)
    THEN IF IsZero(f_val) /\ f_val.sign = 1
         THEN <<"-0.0">>
         ELSE Int64Tokens(CastInt64(f_val, platform)) \o <<".0">>
    ELSE LET b == FloatBytes(f_val)
         IN  <<"bin2float('", FloatHint(f_val), "', '">>
               \o Hex02(b[1]) \o Hex02(b[2]) \o Hex02(b[3]) \o Hex02(b[4])
               \o <<"')">>

-----------------------------------------------------------------------------
(* Expression nodes, as the front end hands them over: typed, resolved,    *)
(* desugared.  member = "" means the lvalue has no coordinate member.      *)

SYM_GLOBAL == "SYM_GLOBAL"
SYM_LOCAL == "SYM_LOCAL"
SYM_BUILTIN == "SYM_BUILTIN"

Symbol(name, sub, type) == [name |-> name, sub |-> sub, type |-> type]

IntegerConstant(v) == [t |-> "LSLIntegerConstant", value |-> v]
FloatConstant(f) == [t |-> "LSLFloatConstant", value |-> f]
LValue(sym, member) == [t |-> "LSLLValueExpression", sym |-> sym, member |-> member]
Binary(op, lhs, rhs, needed) ==
    [t |-> "LSLBinaryExpression", op |-> op, lhs |-> lhs, rhs |-> rhs, needed |-> needed]
Unary(op, child, needed) ==
    [t |-> "LSLUnaryExpression", op |-> op, child |-> child, needed |-> needed]
Typecast(itype, child) == [t |-> "LSLTypecastExpression", itype |-> itype, child |-> child]
FunctionCall(sym, args) == [t |-> "LSLFunctionExpression", sym |-> sym, args |-> args]
PrintExpression(child) == [t |-> "LSLPrintExpression", child |-> child]
Parenthesis(child) == [t |-> "LSLParenthesisExpression", child |-> child]
BoolConversion(child) == [t |-> "LSLBoolConversionExpression", child |-> child]
VectorConstant(x, y, z) == [t |-> "LSLVectorConstant", x |-> x, y |-> y, z |-> z]
VectorExpression(children) == [t |-> "LSLVectorExpression", children |-> children]
ListExpression(children) == [t |-> "LSLListExpression", children |-> children]

F_ONE == [sign |-> 0, exp |-> ExpBias, man |-> 0]
F_ZERO == [sign |-> 0, exp |-> 0, man |-> 0]

\* LSLType::getOneValue() and getDefaultValue() of the front end, for the
\* numeric types and vectors
OneValue(type) ==
    IF type = LST_INTEGER THEN IntegerConstant(1) ELSE FloatConstant(F_ONE)
DefaultValue(type) ==
    CASE type = LST_INTEGER -> IntegerConstant(0)
      [] type = LST_FLOATINGPOINT -> FloatConstant(F_ZERO)
      [] OTHER -> VectorConstant(F_ZERO, F_ZERO, F_ZERO)

\* getIType() of an expression, as the front end has determined it: operands
\* of one operator have one type, comparisons and boolean operators give an
\* integer, an assignment has the type of its target
RECURSIVE IType(_)
IType(e) ==
    CASE e.t = "LSLIntegerConstant" -> LST_INTEGER
      [] e.t = "LSLFloatConstant" -> LST_FLOATINGPOINT
      [] e.t = "LSLLValueExpression" ->
            IF e.member # "" THEN LST_FLOATINGPOINT ELSE e.sym.type
      [] e.t = "LSLTypecastExpression" -> e.itype
      [] e.t = "LSLFunctionExpression" -> e.sym.type
      [] e.t = "LSLBinaryExpression" ->
            IF e.op \in {"OP_EQ", "OP_NEQ", "OP_GREATER", "OP_LESS", "OP_GEQ", "OP_LEQ",
                         "OP_BOOLEAN_AND", "OP_BOOLEAN_OR"}
            THEN LST_INTEGER ELSE IType(e.lhs)
      [] e.t = "LSLUnaryExpression" -> IF e.op = "!" THEN LST_INTEGER ELSE IType(e.child)
      [] e.t = "LSLParenthesisExpression" -> IType(e.child)
      [] e.t = "LSLBoolConversionExpression" -> LST_INTEGER
      [] e.t \in {"LSLVectorExpression", "LSLVectorConstant"} -> LST_VECTOR
      [] e.t = "LSLListExpression" -> LST_LIST
      [] OTHER -> LST_NULL

BinaryOps == {"+", "-", "*", "/", "%", "OP_EQ", "OP_NEQ", "OP_GREATER", "OP_LESS",
              "OP_GEQ", "OP_LEQ", "OP_BOOLEAN_AND", "OP_BOOLEAN_OR", "OP_BIT_AND",
              "OP_BIT_OR", "OP_BIT_XOR", "OP_SHIFT_LEFT", "OP_SHIFT_RIGHT"}
IncrDecrOps == {"OP_POST_DECR", "OP_POST_INCR", "OP_PRE_DECR", "OP_PRE_INCR"}
OtherUnaryOps == {"-", "~", "!"}

-----------------------------------------------------------------------------
(* The expression visitors.  Each returns the tokens its visit appends to  *)
(* mStr; no expression visit reads or writes mTabs.                        *)

RECURSIVE visitExpression(_)
RECURSIVE writeChildrenSep(_, _)

writeChildrenSep(children, separator) ==
    IF children = <<>> THEN <<>>
    ELSE visitExpression(Head(children))
           \o (IF Tail(children) # <<>> THEN <<separator>> ELSE <<>>)
           \o writeChildrenSep(Tail(children), separator)

\* mutant: 's' falls into the case of 'z'
member_to_offset_s_as_z(member) ==
    CASE member = "x" -> 0
      [] member = "y" -> 1
      [] member = "z" -> 2
      [] member = "s" -> 2

member_to_offset(member) ==
    CASE member = "x" -> 0
      [] member = "y" -> 1
      [] member = "z" -> 2
      [] member = "s" -> 3

visitIntegerConstant(int_const) == <<ToString(int_const.value)>>

visitFloatConstant(float_const) == writeFloat(float_const.value)

visitVectorConstant(vec_const) ==
    <<"Vector((">> \o writeFloat(vec_const.x) \o <<", ">> \o writeFloat(vec_const.y)
      \o <<", ">> \o writeFloat(vec_const.z) \o <<"))">>

visitVectorExpression(vec_expr) ==
    <<"Vector((">> \o writeChildrenSep(vec_expr.children, ", ") \o <<"))">>

visitListExpression(list_expr) ==
    <<"[">> \o writeChildrenSep(list_expr.children, ", ") \o <<"]">>

visitTypecastExpression(cast_expr) ==
    IF IType(cast_expr.child) = LST_INTEGER /\ cast_expr.itype = LST_FLOATINGPOINT
    THEN <<"float(">> \o visitExpression(cast_expr.child) \o <<")">>
    ELSE <<"typecast(">> \o visitExpression(cast_expr.child)
           \o <<", ", PY_TYPE_NAMES[cast_expr.itype], ")">>

visitFunctionExpression(func_expr) ==
    <<IF func_expr.sym.sub = SYM_BUILTIN THEN "lslfuncs." ELSE "self.",
      func_expr.sym.name, "(">>
      \o writeChildrenSep(func_expr.args, ", ") \o <<")">>

visitLValueExpression(lvalue) ==
    (IF lvalue.sym.sub = SYM_GLOBAL THEN <<"self.">> ELSE <<>>)
      \o <<lvalue.sym.name>>
      \o (IF lvalue.member # ""
          THEN <<"[", ToString(member_to_offset(lvalue.member)), "]">>
          ELSE <<>>)

constructMutatedMember(sym, member, rhs) ==
    <<"replace_coord_axis(">>
      \o (IF sym.sub = SYM_GLOBAL THEN <<"self.">> ELSE <<>>)
      \o <<sym.name, ", ", ToString(member_to_offset(member)), ", ">>
      \o visitExpression(rhs)
      \o <<")">>

\* the switch over the non-assignment operators
BinaryHelper(op) ==
    CASE op = "+" -> "radd("
      [] op = "-" -> "rsub("
      [] op = "*" -> "rmul("
      [] op = "/" -> "rdiv("
      [] op = "%" -> "rmod("
      [] op = "OP_EQ" -> "req("
      [] op = "OP_NEQ" -> "rneq("
      [] op = "OP_GREATER" -> "rgreater("
      [] op = "OP_LESS" -> "rless("
      [] op = "OP_GEQ" -> "rgeq("
      [] op = "OP_LEQ" -> "rleq("
      [] op = "OP_BOOLEAN_AND" -> "rbooland("
      [] op = "OP_BOOLEAN_OR" -> "rboolor("
      [] op = "OP_BIT_AND" -> "rbitand("
      [] op = "OP_BIT_OR" -> "rbitor("
      [] op = "OP_BIT_XOR" -> "rbitxor("
      [] op = "OP_SHIFT_LEFT" -> "rshl("
      [] op = "OP_SHIFT_RIGHT" -> "rshr("
      [] OTHER -> "<ERROR>"

\* mutant: the inline binding is used for globals too and the result is not
\* indexed back down to the member
visitAssignmentWalrusOnly(bin_expr) ==
    LET lvalue == bin_expr.lhs
        sym == lvalue.sym
        rhs == bin_expr.rhs
        value == IF lvalue.member # ""
                 THEN constructMutatedMember(sym, lvalue.member, rhs)
                 ELSE visitExpression(rhs)
    IN  IF ~bin_expr.needed
        THEN (IF sym.sub = SYM_GLOBAL THEN <<"self.">> ELSE <<>>)
               \o <<sym.name, " = ">> \o value
        ELSE <<"(", sym.name, " := ">> \o value \o <<")">>

\* the branch op == '='
visitAssignment(bin_expr) ==
    LET lvalue == bin_expr.lhs
        sym == lvalue.sym
        rhs == bin_expr.rhs
        value == IF lvalue.member # ""
                 THEN constructMutatedMember(sym, lvalue.member, rhs)
                 ELSE visitExpression(rhs)
    IN  IF ~bin_expr.needed
        THEN (IF sym.sub = SYM_GLOBAL THEN <<"self.">> ELSE <<>>)
               \o <<sym.name, " = ">> \o value
        ELSE (IF sym.sub = SYM_GLOBAL
              THEN <<"assign(self.__dict__, \"", sym.name, "\", ">>
              ELSE <<"(", sym.name, " := ">>)
               \o value
               \o <<")">>
               \o (IF lvalue.member # ""
                   THEN <<"[", ToString(member_to_offset(lvalue.member)), "]">>
                   ELSE <<>>)

\* mutant: the product is cast to float
visitMulAssignCastToFloat(bin_expr) ==
    LET sym == bin_expr.lhs.sym
    IN  (IF sym.sub = SYM_GLOBAL
         THEN <<"assign(self.__dict__, \"", sym.name, "\", ">>
         ELSE <<"(", sym.name, " := ">>)
          \o <<"typecast(rmul(">>
          \o visitExpression(bin_expr.rhs)
          \o <<", ">>
          \o visitExpression(bin_expr.lhs)
          \o <<"), ", "float", "))">>

\* the branch op == OP_MUL_ASSIGN; the literal "), int))" is three tokens,
\* the type tag in the middle
visitMulAssign(bin_expr) ==
    LET sym == bin_expr.lhs.sym
    IN  (IF sym.sub = SYM_GLOBAL
         THEN <<"assign(self.__dict__, \"", sym.name, "\", ">>
         ELSE <<"(", sym.name, " := ">>)
          \o <<"typecast(rmul(">>
          \o visitExpression(bin_expr.rhs)
          \o <<", ">>
          \o visitExpression(bin_expr.lhs)
          \o <<"), ", "int", "))">>

\* mutant: the operands are visited left first
visitOperatorLeftFirst(bin_expr) ==
    <<BinaryHelper(bin_expr.op)>>
      \o visitExpression(bin_expr.lhs)
      \o <<", ">>
      \o visitExpression(bin_expr.rhs)
      \o <<")">>

\* the switch and the two operand visits that follow it
visitOperator(bin_expr) ==
    <<BinaryHelper(bin_expr.op)>>
      \o visitExpression(bin_expr.rhs)
      \o <<", ">>
      \o visitExpression(bin_expr.lhs)
      \o <<")">>

visitBinaryExpression(bin_expr) ==
    IF bin_expr.op = "=" THEN visitAssignment(bin_expr)
    ELSE IF bin_expr.op = "OP_MUL_ASSIGN" THEN visitMulAssign(bin_expr)
    ELSE visitOperator(bin_expr)

\* mutant: only getResultNeeded() selects the helper form
visitIncrDecrIgnoringMember(unary_expr) ==
    LET op == unary_expr.op
        post == op = "OP_POST_INCR" \/ op = "OP_POST_DECR"
        negative == op = "OP_POST_DECR" \/ op = "OP_PRE_DECR"
        lvalue == unary_expr.child
        sym == lvalue.sym
        global == sym.sub = SYM_GLOBAL
    IN  IF unary_expr.needed
        THEN <<IF post THEN "post" ELSE "pre",
               IF negative THEN "decr" ELSE "incr",
               "(",
               IF global THEN "self.__dict__" ELSE "locals()",
               ", \"", sym.name, "\"">>
               \o (IF lvalue.member # ""
                   THEN <<", ", ToString(member_to_offset(lvalue.member))>>
                   ELSE <<>>)
               \o <<")">>
        ELSE (IF sym.sub = SYM_GLOBAL THEN <<"self.">> ELSE <<>>)
               \o <<sym.name>>
               \o (IF op = "OP_POST_DECR" \/ op = "OP_PRE_DECR"
                   THEN <<" -= ">> ELSE <<" += ">>)
               \o visitExpression(OneValue(IType(lvalue)))

\* the branch for ++ and --
visitIncrDecr(unary_expr) ==
    LET op == unary_expr.op
        post == op = "OP_POST_INCR" \/ op = "OP_POST_DECR"
        negative == op = "OP_POST_DECR" \/ op = "OP_PRE_DECR"
        lvalue == unary_expr.child
        sym == lvalue.sym
        global == sym.sub = SYM_GLOBAL
        member == lvalue.member
    IN  IF unary_expr.needed \/ member # ""
        THEN <<IF post THEN "post" ELSE "pre",
               IF negative THEN "decr" ELSE "incr",
               "(",
               IF global THEN "self.__dict__" ELSE "locals()",
               ", \"", sym.name, "\"">>
               \o (IF lvalue.member # ""
                   THEN <<", ", ToString(member_to_offset(lvalue.member))>>
                   ELSE <<>>)
               \o <<")">>
        ELSE (IF sym.sub = SYM_GLOBAL THEN <<"self.">> ELSE <<>>)
               \o <<sym.name>>
               \o (IF op = "OP_POST_DECR" \/ op = "OP_PRE_DECR"
                   THEN <<" -= ">> ELSE <<" += ">>)
               \o visitExpression(OneValue(IType(lvalue)))

visitUnaryExpression(unary_expr) ==
    IF unary_expr.op \in IncrDecrOps THEN visitIncrDecr(unary_expr)
    ELSE <<CASE unary_expr.op = "-" -> "neg("
             [] unary_expr.op = "~" -> "bitnot("
             [] unary_expr.op = "!" -> "boolnot("
             [] OTHER -> "<ERROR>">>
           \o visitExpression(unary_expr.child) \o <<")">>

visitPrintExpression(print_expr) ==
    <<"print(">> \o visitExpression(print_expr.child) \o <<")">>

visitParenthesisExpression(parens_expr) ==
    <<"(">> \o visitExpression(parens_expr.child) \o <<")">>

visitBoolConversionExpression(bool_expr) ==
    <<"cond(">> \o visitExpression(bool_expr.child) \o <<")">>

\* child->visit(this): dispatch on the node type
visitExpression(e) ==
    CASE e.t = "LSLIntegerConstant" -> visitIntegerConstant(e)
      [] e.t = "LSLFloatConstant" -> visitFloatConstant(e)
      [] e.t = "LSLVectorConstant" -> visitVectorConstant(e)
      [] e.t = "LSLVectorExpression" -> visitVectorExpression(e)
      [] e.t = "LSLListExpression" -> visitListExpression(e)
      [] e.t = "LSLTypecastExpression" -> visitTypecastExpression(e)
      [] e.t = "LSLFunctionExpression" -> visitFunctionExpression(e)
      [] e.t = "LSLLValueExpression" -> visitLValueExpression(e)
      [] e.t = "LSLBinaryExpression" -> visitBinaryExpression(e)
      [] e.t = "LSLUnaryExpression" -> visitUnaryExpression(e)
      [] e.t = "LSLPrintExpression" -> visitPrintExpression(e)
      [] e.t = "LSLParenthesisExpression" -> visitParenthesisExpression(e)
      [] e.t = "LSLBoolConversionExpression" -> visitBoolConversionExpression(e)

-----------------------------------------------------------------------------
(* Statement and declaration nodes.  NoNode stands for a null pointer      *)
(* (no initializer, no else branch, no return value).                      *)

NoNode == [t |-> "null"]

NopStatement == [t |-> "LSLNopStatement"]
CompoundStatement(children) == [t |-> "LSLCompoundStatement", children |-> children]
ExpressionStatement(expr) == [t |-> "LSLExpressionStatement", expr |-> expr]
Declaration(sym, init) == [t |-> "LSLDeclaration", sym |-> sym, init |-> init]
IfStatement(check, true, false) ==
    [t |-> "LSLIfStatement", check |-> check, true |-> true, false |-> false]
ForStatement(inits, check, body, incrs) ==
    [t |-> "LSLForStatement", inits |-> inits, check |-> check, body |-> body,
     incrs |-> incrs]
WhileStatement(check, body) == [t |-> "LSLWhileStatement", check |-> check, body |-> body]
DoStatement(body, check) == [t |-> "LSLDoStatement", body |-> body, check |-> check]
JumpStatement(sym) == [t |-> "LSLJumpStatement", sym |-> sym]
Label(sym) == [t |-> "LSLLabel", sym |-> sym]
ReturnStatement(expr) == [t |-> "LSLReturnStatement", expr |-> expr]
StateStatement(sym) == [t |-> "LSLStateStatement", sym |-> sym]
GlobalVariable(sym, init) == [t |-> "LSLGlobalVariable", sym |-> sym, init |-> init]
\* id and every argument are [name, type]
GlobalFunction(id, args, body) ==
    [t |-> "LSLGlobalFunction", id |-> id, args |-> args, body |-> body]
\* state is the symbol of the state that owns the handler
\* (getParent()->getParent()->getSymbol())
EventHandler(id, state, args, body) ==
    [t |-> "LSLEventHandler", id |-> id, state |-> state, args |-> args, body |-> body]
State(sym, handlers) == [t |-> "LSLState", sym |-> sym, children |-> handlers]
NodeList(children) == [t |-> "LSLASTNodeList", children |-> children]
Script(globals, states) == [t |-> "LSLScript", globals |-> globals, states |-> states]

Ident(name, type) == [name |-> name, type |-> type]

-----------------------------------------------------------------------------
(* The statement visitors, one step of the traversal at a time.  `work` is *)
(* what the running visits still have to do, innermost first:              *)
(*   visit n   n->visit(this)                                              *)
(*   expr n    n->visit(this) for an expression n                          *)
(*   tabs      doTabs()                                                    *)
(*   emit s    mStr << the tokens s                                        *)
(*   enter     a ScopedTabSetter(this, mTabs + 1) is constructed           *)
(*   leave     the innermost ScopedTabSetter is destroyed                  *)
(*   return    the innermost visit returns                                 *)

W_visit(n) == [k |-> "visit", n |-> n]
W_expr(n) == [k |-> "expr", n |-> n]
W_tabs == [k |-> "tabs"]
W_emit(s) == [k |-> "emit", s |-> s]
W_enter == [k |-> "enter"]
W_leave == [k |-> "leave"]
W_return(n) == [k |-> "return", t |-> n.t]

IsGlobalVariable(glob) == glob.t = "LSLGlobalVariable"
IsGlobalFunction(glob) == glob.t = "LSLGlobalFunction"

VisitEach(nodes) == [i \in DOMAIN nodes |-> W_visit(nodes[i])]

\* ", <name>: <type>" for every argument
ArgumentTokens(args) ==
    Flatten([i \in DOMAIN args |-> <<", ", args[i].name, ": ", PY_TYPE_NAMES[args[i].type]>>])

\* the class-level type declarations of the global variables
TypeDeclarations(globals) ==
    Flatten([i \in DOMAIN globals |->
        IF ~IsGlobalVariable(globals[i]) THEN <<>>
        ELSE <<W_tabs,
               W_emit(<<globals[i].sym.name, ": ", PY_TYPE_NAMES[globals[i].sym.type], "\n">>)>>])

\* mutant: the loop inside __init__ visits every global, functions included
StepsScriptUnfiltered(script) ==
    <<W_emit(<<"from lummao import *", "\n", "\n", "\n">>),
      W_emit(<<"class Script(BaseLSLScript):", "\n">>),
      W_enter>>
      \o TypeDeclarations(script.globals)
      \o <<W_emit(<<"\n">>),
           W_tabs,
           W_emit(<<"def __init__(self):", "\n">>),
           W_enter,
           W_tabs,
           W_emit(<<"super().__init__()", "\n">>)>>
      \o VisitEach(script.globals)
      \o <<W_emit(<<"\n">>),
           W_leave>>
      \o VisitEach(SelectSeq(script.globals, IsGlobalFunction))
      \o <<W_visit(script.states),
           W_leave>>

StepsScript(script) ==
    <<W_emit(<<"from lummao import *", "\n", "\n", "\n">>),
      W_emit(<<"class Script(BaseLSLScript):", "\n">>),
      W_enter>>
      \o TypeDeclarations(script.globals)
      \o <<W_emit(<<"\n">>),
           W_tabs,
           W_emit(<<"def __init__(self):", "\n">>),
           W_enter,
           W_tabs,
           W_emit(<<"super().__init__()", "\n">>)>>
      \o VisitEach(SelectSeq(script.globals, IsGlobalVariable))
      \o <<W_emit(<<"\n">>),
           W_leave>>
      \o VisitEach(SelectSeq(script.globals, IsGlobalFunction))
      \o <<W_visit(script.states),
           W_leave>>

StepsGlobalVariable(glob_var) ==
    <<W_tabs,
      W_emit(<<"self.", glob_var.sym.name, " = ">>),
      W_expr(IF glob_var.init = NoNode THEN DefaultValue(glob_var.sym.type)
             ELSE glob_var.init),
      W_emit(<<"\n">>)>>

StepsGlobalFunction(glob_func) ==
    <<W_tabs,
      W_emit(<<"@with_goto", "\n">>),
      W_tabs,
      W_emit(<<"def ", glob_func.id.name, "(self">>
               \o ArgumentTokens(glob_func.args)
               \o <<") -> ", PY_TYPE_NAMES[glob_func.id.type], ":", "\n">>),
      W_enter,
      W_visit(glob_func.body),
      W_emit(<<"\n">>),
      W_leave>>

StepsEventHandler(event_handler) ==
    <<W_tabs,
      W_emit(<<"@with_goto", "\n">>),
      W_tabs,
      W_emit(<<"def e", event_handler.state.name, event_handler.id.name, "(self">>
               \o ArgumentTokens(event_handler.args)
               \o <<") -> ", PY_TYPE_NAMES[event_handler.id.type], ":", "\n">>),
      W_enter,
      W_visit(event_handler.body),
      W_emit(<<"\n">>),
      W_leave>>

\* a node without a visit() override: the base visitor descends into its
\* children (the state list and every state)
StepsChildren(node) == VisitEach(node.children)

StepsNopStatement(nop_stmt) == <<W_tabs, W_emit(<<"pass", "\n">>)>>

StepsCompoundStatement(compound_stmt) ==
    IF compound_stmt.children # <<>>
    THEN VisitEach(compound_stmt.children)
    ELSE <<W_tabs, W_emit(<<"pass", "\n">>)>>

StepsExpressionStatement(expr_stmt) ==
    <<W_tabs, W_expr(expr_stmt.expr), W_emit(<<"\n">>)>>

StepsDeclaration(decl_stmt) ==
    <<W_tabs,
      W_emit(<<decl_stmt.sym.name, ": ", PY_TYPE_NAMES[decl_stmt.sym.type], " = ">>),
      W_expr(IF decl_stmt.init = NoNode THEN DefaultValue(decl_stmt.sym.type)
             ELSE decl_stmt.init),
      W_emit(<<"\n">>)>>

StepsIfStatement(if_stmt) ==
    <<W_tabs,
      W_emit(<<"if ">>),
      W_expr(if_stmt.check),
      W_emit(<<":", "\n">>),
      W_enter,
      W_visit(if_stmt.true),
      W_leave>>
      \o (IF if_stmt.false # NoNode
          THEN <<W_tabs,
                 W_emit(<<"else:", "\n">>),
                 W_enter,
                 W_visit(if_stmt.false),
                 W_leave>>
          ELSE <<>>)

\* one clause of a for statement, written as a statement of its own
ClauseSteps(exprs) ==
    Flatten([i \in DOMAIN exprs |-> <<W_tabs, W_expr(exprs[i]), W_emit(<<"\n">>)>>])

\* mutant: the increment clauses come before the body
StepsForStatementIncrFirst(for_stmt) ==
    ClauseSteps(for_stmt.inits)
      \o <<W_tabs,
           W_emit(<<"while True:", "\n">>),
           W_enter,
           W_tabs,
           W_emit(<<"if not ">>),
           W_expr(for_stmt.check),
           W_emit(<<":", "\n">>),
           W_enter,
           W_tabs,
           W_emit(<<"break", "\n">>),
           W_leave>>
      \o ClauseSteps(for_stmt.incrs)
      \o <<W_visit(for_stmt.body), W_leave>>

StepsForStatement(for_stmt) ==
    ClauseSteps(for_stmt.inits)
      \o <<W_tabs,
           W_emit(<<"while True:", "\n">>),
           W_enter,
           W_tabs,
           W_emit(<<"if not ">>),
           W_expr(for_stmt.check),
           W_emit(<<":", "\n">>),
           W_enter,
           W_tabs,
           W_emit(<<"break", "\n">>),
           W_leave,
           W_visit(for_stmt.body)>>
      \o ClauseSteps(for_stmt.incrs)
      \o <<W_leave>>

StepsWhileStatement(while_stmt) ==
    <<W_tabs,
      W_emit(<<"while ">>),
      W_expr(while_stmt.check),
      W_emit(<<":", "\n">>),
      W_enter,
      W_visit(while_stmt.body),
      W_leave>>

StepsDoStatement(do_stmt) ==
    <<W_tabs,
      W_emit(<<"while True:", "\n">>),
      W_enter,
      W_visit(do_stmt.body),
      W_tabs,
      W_emit(<<"if not ">>),
      W_expr(do_stmt.check),
      W_emit(<<":", "\n">>),
      W_enter,
      W_tabs,
      W_emit(<<"break", "\n">>),
      W_leave,
      W_leave>>

StepsJumpStatement(jump_stmt) ==
    <<W_tabs, W_emit(<<"goto .", jump_stmt.sym.name, "\n">>)>>

StepsLabel(label_stmt) ==
    <<W_tabs, W_emit(<<"label .", label_stmt.sym.name, "\n">>)>>

StepsReturnStatement(return_stmt) ==
    <<W_tabs>>
      \o (IF return_stmt.expr # NoNode
          THEN <<W_emit(<<"return ">>), W_expr(return_stmt.expr)>>
          ELSE <<W_emit(<<"return">>)>>)
      \o <<W_emit(<<"\n">>)>>

StepsStateStatement(state_stmt) ==
    <<W_tabs,
      W_emit(<<"raise StateChangeException('", state_stmt.sym.name, "')", "\n">>)>>

Top == Head(work)

Visiting(type) == work # <<>> /\ Top.k = "visit" /\ Top.n.t = type

\* the visit of Top.n starts: its steps come before everything else
BeginVisit(steps) ==
    /\ work' = steps \o <<W_return(Top.n)>> \o Tail(work)
    /\ visits' = <<mTabs>> \o visits
    /\ UNCHANGED <<root, platform, mStr, mTabs, tabSetters, lastVisit, fVal, drv, sim>>

visitScript == Visiting("LSLScript") /\ BeginVisit(StepsScript(Top.n))
visitGlobalVariable == Visiting("LSLGlobalVariable") /\ BeginVisit(StepsGlobalVariable(Top.n))
visitGlobalFunction == Visiting("LSLGlobalFunction") /\ BeginVisit(StepsGlobalFunction(Top.n))
visitEventHandler == Visiting("LSLEventHandler") /\ BeginVisit(StepsEventHandler(Top.n))
visitChildren ==
    /\ Visiting("LSLASTNodeList") \/ Visiting("LSLState")
    /\ BeginVisit(StepsChildren(Top.n))
visitNopStatement == Visiting("LSLNopStatement") /\ BeginVisit(StepsNopStatement(Top.n))
visitCompoundStatement ==
    Visiting("LSLCompoundStatement") /\ BeginVisit(StepsCompoundStatement(Top.n))
visitExpressionStatement ==
    Visiting("LSLExpressionStatement") /\ BeginVisit(StepsExpressionStatement(Top.n))
visitDeclaration == Visiting("LSLDeclaration") /\ BeginVisit(StepsDeclaration(Top.n))
visitIfStatement == Visiting("LSLIfStatement") /\ BeginVisit(StepsIfStatement(Top.n))
visitForStatement == Visiting("LSLForStatement") /\ BeginVisit(StepsForStatement(Top.n))
visitWhileStatement == Visiting("LSLWhileStatement") /\ BeginVisit(StepsWhileStatement(Top.n))
visitDoStatement == Visiting("LSLDoStatement") /\ BeginVisit(StepsDoStatement(Top.n))
visitJumpStatement == Visiting("LSLJumpStatement") /\ BeginVisit(StepsJumpStatement(Top.n))
visitLabel == Visiting("LSLLabel") /\ BeginVisit(StepsLabel(Top.n))
visitReturnStatement ==
    Visiting("LSLReturnStatement") /\ BeginVisit(StepsReturnStatement(Top.n))
visitStateStatement ==
    Visiting("LSLStateStatement") /\ BeginVisit(StepsStateStatement(Top.n))

\* the innermost visit returns
ReturnFromVisit ==
    /\ work # <<>> /\ Top.k = "return"
    /\ lastVisit' = [t |-> Top.t, entry |-> Head(visits), exit |-> mTabs]
    /\ visits' = Tail(visits)
    /\ work' = Tail(work)
    /\ UNCHANGED <<root, platform, mStr, mTabs, tabSetters, fVal, drv, sim>>

doTabs ==
    /\ work # <<>> /\ Top.k = "tabs"
    /\ mStr' = mStr \o Repeat("    ", mTabs)
    /\ work' = Tail(work)
    /\ UNCHANGED <<root, platform, mTabs, tabSetters, visits, lastVisit, fVal, drv, sim>>

\* mStr << literals and names
Emit ==
    /\ work # <<>> /\ Top.k = "emit"
    /\ mStr' = mStr \o Top.s
    /\ work' = Tail(work)
    /\ UNCHANGED <<root, platform, mTabs, tabSetters, visits, lastVisit, fVal, drv, sim>>

\* the visit of a whole expression
VisitExpression ==
    /\ work # <<>> /\ Top.k = "expr"
    /\ mStr' = mStr \o visitExpression(Top.n)
    /\ work' = Tail(work)
    /\ UNCHANGED <<root, platform, mTabs, tabSetters, visits, lastVisit, fVal, drv, sim>>

\* ScopedTabSetter(visitor, tabs): remembers mTabs, then sets it
ScopedTabSetterCtor(tabs) ==
    /\ tabSetters' = <<mTabs>> \o tabSetters
    /\ mTabs' = tabs

EnterBlock ==
    /\ work # <<>> /\ Top.k = "enter"
    /\ ScopedTabSetterCtor(mTabs + 1)
    /\ work' = Tail(work)
    /\ UNCHANGED <<root, platform, mStr, visits, lastVisit, fVal, drv, sim>>

\* mutant: the destructor leaves mTabs as it is
RestoredTabsKept(_mOldTabs) == mTabs

\* ~ScopedTabSetter(): the value mTabs gets back
RestoredTabs(_mOldTabs) == _mOldTabs

LeaveBlock ==
    /\ work # <<>> /\ Top.k = "leave"
    /\ mTabs' = RestoredTabs(Head(tabSetters))
    /\ tabSetters' = Tail(tabSetters)
    /\ work' = Tail(work)
    /\ UNCHANGED <<root, platform, mStr, visits, lastVisit, fVal, drv, sim>>

-----------------------------------------------------------------------------
(* Inputs: symbols and expressions *)

gi == Symbol("gi", SYM_GLOBAL, LST_INTEGER)
gf == Symbol("gf", SYM_GLOBAL, LST_FLOATINGPOINT)
gv == Symbol("gv", SYM_GLOBAL, LST_VECTOR)
li == Symbol("li", SYM_LOCAL, LST_INTEGER)
lf == Symbol("lf", SYM_LOCAL, LST_FLOATINGPOINT)
lq == Symbol("lq", SYM_LOCAL, LST_QUATERNION)
userFn == Symbol("helper", SYM_GLOBAL, LST_INTEGER)
builtinFn == Symbol("llAbs", SYM_BUILTIN, LST_INTEGER)

\* lvalues with a coordinate member: every member, on a global and a local
MemberLValues == {LValue(gv, "x"), LValue(gv, "y"), LValue(gv, "z"),
                  LValue(lq, "x"), LValue(lq, "z"), LValue(lq, "s")}
ScalarLValues == {LValue(gi, ""), LValue(li, ""), LValue(gf, ""), LValue(lf, "")}
WholeLValues == ScalarLValues \cup {LValue(gv, ""), LValue(lq, "")}
NumericLValues == ScalarLValues \cup MemberLValues

F_HALF == [sign |-> 0, exp |-> ExpBias - 1, man |-> 0]

\* The trees are typed as the front end types them: both operands of an
\* operator have the same type (the desugaring pass has made every
\* integer-to-float coercion a typecast node), the bitwise, shift, boolean
\* and modulo operators take integers, an assignment's value has the type of
\* its target, and the one compound assignment left is integer *= float.
IntLeaves == {IntegerConstant(7), LValue(gi, ""), LValue(li, "")}
FloatLeaves == {LValue(gv, "y"), LValue(lq, "s"), LValue(lf, ""), FloatConstant(F_HALF)}
SmallInts == {IntegerConstant(7), LValue(li, "")}
SmallFloats == {LValue(lf, ""), Typecast(LST_FLOATINGPOINT, LValue(li, ""))}

\* expressions whose result an enclosing expression uses
InnerInt ==
    {Binary(op, a, b, TRUE) : op \in {"-", "OP_SHIFT_LEFT"}, a \in SmallInts, b \in SmallInts}
    \cup {Binary("=", lv, a, TRUE) : lv \in {LValue(gi, ""), LValue(li, "")}, a \in SmallInts}
    \cup {Binary("OP_MUL_ASSIGN", lv, FloatConstant(F_HALF), TRUE) :
             lv \in {LValue(gi, ""), LValue(li, "")}}
    \cup {Unary(op, LValue(gi, ""), TRUE) : op \in {"OP_PRE_INCR", "OP_POST_DECR"}}
    \cup {Unary("!", LValue(li, ""), TRUE),
          Parenthesis(Binary("+", LValue(li, ""), Binary("*", IntegerConstant(7),
                                                         LValue(gi, ""), TRUE), TRUE)),
          FunctionCall(userFn, <<LValue(li, ""), Unary("OP_PRE_INCR", LValue(li, ""), TRUE)>>),
          FunctionCall(builtinFn, <<Typecast(LST_INTEGER,
              Binary("=", LValue(gv, "x"), LValue(lf, ""), TRUE))>>)}
InnerFloat ==
    {Binary("=", lv, a, TRUE) : lv \in {LValue(gv, "z"), LValue(lq, "s"), LValue(gf, "")},
                                 a \in SmallFloats}
    \cup {Unary(op, LValue(lq, "x"), TRUE) : op \in {"OP_PRE_INCR", "OP_POST_DECR"}}
    \cup {Typecast(LST_FLOATINGPOINT, LValue(gi, "")),
          Binary("*", LValue(lf, ""), LValue(gv, "y"), TRUE)}

IntOperands == IntLeaves \cup InnerInt
FloatOperands == FloatLeaves \cup InnerFloat
VectorOperands == {LValue(gv, ""),
                   VectorExpression(<<LValue(lf, ""), FloatConstant(F_ONE), LValue(gv, "x")>>)}
QuaternionOperands == {LValue(lq, "")}
Operands == IntOperands \cup FloatOperands

NumericOps == {"+", "-", "*", "/", "OP_EQ", "OP_NEQ", "OP_GREATER", "OP_LESS",
               "OP_GEQ", "OP_LEQ"}
IntegerOps == BinaryOps \ NumericOps

\* the values an lvalue can be assigned
ValuesFor(lv) ==
    CASE IType(lv) = LST_INTEGER -> IntOperands
      [] IType(lv) = LST_FLOATINGPOINT -> FloatOperands
      [] IType(lv) = LST_VECTOR -> VectorOperands
      [] IType(lv) = LST_QUATERNION -> QuaternionOperands

Roots ==
    {Binary(op, a, b, TRUE) : op \in NumericOps, a \in IntOperands, b \in IntOperands}
    \cup {Binary(op, a, b, TRUE) : op \in NumericOps, a \in FloatOperands, b \in FloatOperands}
    \cup {Binary(op, a, b, TRUE) : op \in IntegerOps, a \in IntOperands, b \in IntOperands}
    \cup UNION {{Binary("=", lv, a, n) : a \in ValuesFor(lv), n \in BOOLEAN} :
                  lv \in WholeLValues \cup MemberLValues}
    \cup {Binary("OP_MUL_ASSIGN", lv, a, n) :
             lv \in {LValue(gi, ""), LValue(li, "")},
             a \in FloatOperands,
             n \in BOOLEAN}
    \cup {Unary(op, lv, n) : op \in IncrDecrOps, lv \in NumericLValues, n \in BOOLEAN}
    \cup {Unary(op, a, TRUE) : op \in {"-"}, a \in Operands}
    \cup {Unary(op, a, TRUE) : op \in {"~", "!"}, a \in IntOperands}
    \cup {Typecast(LST_STRING, a) : a \in Operands}
    \cup {BoolConversion(a) : a \in Operands}
    \cup {PrintExpression(a) : a \in Operands}
    \cup {ListExpression(<<a, IntegerConstant(7)>>) : a \in Operands}
    \cup {Parenthesis(a) : a \in Operands}

RECURSIVE SubExprs(_)
RECURSIVE SubExprsOfAll(_)
SubExprsOfAll(es) ==
    IF es = <<>> THEN {} ELSE SubExprs(Head(es)) \cup SubExprsOfAll(Tail(es))
\* e and every expression below it
SubExprs(e) ==
    {e} \cup
    CASE e.t = "LSLBinaryExpression" -> SubExprs(e.lhs) \cup SubExprs(e.rhs)
      [] e.t \in {"LSLUnaryExpression", "LSLTypecastExpression", "LSLPrintExpression",
                  "LSLParenthesisExpression", "LSLBoolConversionExpression"} ->
            SubExprs(e.child)
      [] e.t = "LSLFunctionExpression" -> SubExprsOfAll(e.args)
      [] e.t \in {"LSLVectorExpression", "LSLListExpression"} -> SubExprsOfAll(e.children)
      [] OTHER -> {}

DrvOff == [pc |-> "off"]
SimOff == [on |-> FALSE]
NoVisit == [t |-> "none", entry |-> 0, exit |-> 0]

\* a caller visits one expression with a fresh visitor
InitExpr ==
    /\ root \in Roots
    /\ platform \in Platforms
    /\ work = <<W_expr(root)>>
    /\ mStr = <<>>
    /\ mTabs = 0
    /\ tabSetters = <<>>
    /\ visits = <<>>
    /\ lastVisit = NoVisit
    /\ fVal = F_ZERO
    /\ drv = DrvOff
    /\ sim = SimOff

NextExpr == VisitExpression

SpecExpr == InitExpr /\ [][NextExpr]_vars

-----------------------------------------------------------------------------
(* writeFloat on its own *)

W_float(f) == [k |-> "float", f |-> f]

\* writeFloat(f_val) is called
CallWriteFloat ==
    /\ work # <<>> /\ Top.k = "float"
    /\ mStr' = mStr \o writeFloat(Top.f)
    /\ work' = Tail(work)
    /\ UNCHANGED <<root, platform, mTabs, tabSetters, visits, lastVisit, fVal, drv, sim>>

\* exponents around every boundary of the encoding: zero and denormals,
\* below and above one, the last exponent with a fractional bit, the limits
\* of int64_t, the largest finite exponent, infinities and NaNs
FloatExps ==
    {0, 1, ExpBias - 1, ExpBias, ExpBias + 1, ExpBias + ManBits - 1, ExpBias + ManBits,
     ExpBias + ManBits + 1, ExpBias + Int64Bits - 2, ExpBias + Int64Bits - 1,
     ExpBias + Int64Bits, ExpMax - 1, ExpMax}
FloatMans ==
    {0, 1, 2, Hidden \div 2, (Hidden \div 2) + 1, (Hidden \div 4) * 3, Hidden - 2, Hidden - 1}
Floats == [sign : {0, 1}, exp : FloatExps, man : FloatMans]

InitFloat ==
    /\ fVal \in Floats
    /\ platform \in Platforms
    /\ root = FloatConstant(fVal)
    /\ work = <<W_float(fVal)>>
    /\ mStr = <<>>
    /\ mTabs = 0
    /\ tabSetters = <<>>
    /\ visits = <<>>
    /\ lastVisit = NoVisit
    /\ drv = DrvOff
    /\ sim = SimOff

NextFloat == CallWriteFloat

SpecFloat == InitFloat /\ [][NextFloat]_vars

-----------------------------------------------------------------------------
(* main(): the driver.  drv.pc is its position.  The environment of a run  *)
(* is fixed when it starts: argc, whether argv[1] and argv[2] name files   *)
(* ("-" otherwise), whether those files open, whether a write to the       *)
(* destination succeeds, and how many errors the front end will log in     *)
(* its two rounds of passes.                                               *)

MaxArgc == 4
MaxErrors == 2

Exit(status) == [drv EXCEPT !.pc = "exit", !.status = status]

\* if (argc != 3) return 1
CheckArguments ==
    /\ drv.pc = "main"
    /\ drv' = IF drv.argc # 3 THEN Exit(1) ELSE [drv EXCEPT !.pc = "open"]
    /\ UNCHANGED <<root, platform, work, mStr, mTabs, tabSetters, visits, lastVisit, fVal, sim>>

\* fopen(argv[1]) unless argv[1] is "-"
OpenInput ==
    /\ drv.pc = "open"
    /\ drv' = IF drv.inNamed /\ ~drv.inOpens THEN Exit(1) ELSE [drv EXCEPT !.pc = "frontend"]
    /\ UNCHANGED <<root, platform, work, mStr, mTabs, tabSetters, visits, lastVisit, fVal, sim>>

\* parseLSL and the analysis passes; validateGlobals and checkSymbols run
\* only if the passes before them logged nothing
RunFrontEnd ==
    /\ drv.pc = "frontend"
    /\ drv' = [drv EXCEPT !.pc = "report",
                          !.errors = IF drv.found1 # 0 THEN drv.found1 ELSE drv.found2]
    /\ UNCHANGED <<root, platform, work, mStr, mTabs, tabSetters, visits, lastVisit, fVal, sim>>

\* mutant: generation is not gated on the error count
StartGenerationUngated ==
    /\ drv.pc = "report"
    /\ drv' = [drv EXCEPT !.pc = "visit", !.ran = TRUE]
    /\ work' = <<W_visit(root)>>
    /\ mStr' = <<>>
    /\ mTabs' = 0
    /\ UNCHANGED <<root, platform, tabSetters, visits, lastVisit, fVal, sim>>

\* if (!logger->getErrors()): script->visit(&py_visitor) with a new visitor
StartGeneration ==
    /\ drv.pc = "report"
    /\ drv.errors = 0
    /\ drv' = [drv EXCEPT !.pc = "visit", !.ran = TRUE]
    /\ work' = <<W_visit(root)>>
    /\ mStr' = <<>>
    /\ mTabs' = 0
    /\ UNCHANGED <<root, platform, tabSetters, visits, lastVisit, fVal, sim>>

\* errors were logged: straight to return logger->getErrors()
SkipGeneration ==
    /\ drv.pc = "report"
    /\ drv.errors # 0
    /\ drv' = Exit(drv.errors)
    /\ UNCHANGED <<root, platform, work, mStr, mTabs, tabSetters, visits, lastVisit, fVal, sim>>

\* the visit has returned: py_code goes to stdout or to the file argv[2];
\* only the file's open is tested, no write is
WriteOutput ==
    /\ drv.pc = "visit"
    /\ work = <<>>
    /\ drv' = IF drv.outNamed /\ ~drv.outOpens
              THEN [Exit(1) EXCEPT !.py_code = mStr]
              ELSE [Exit(drv.errors) EXCEPT !.py_code = mStr,
                                            !.sent = mStr,
                                            !.wrote = TRUE,
                                            !.out = IF drv.outWrites THEN mStr ELSE <<>>]
    /\ UNCHANGED <<root, platform, work, mStr, mTabs, tabSetters, visits, lastVisit, fVal, sim>>

-----------------------------------------------------------------------------
(* Inputs: scripts *)

MaxGlobals == 3
MaxNest == 2

GlobalNames == <<"g1", "g2", "g3", "g4", "g5", "g6">>
FunctionNames == <<"f1", "f2", "f3", "f4", "f5", "f6">>

lbl == Symbol("again", SYM_LOCAL, LST_NULL)
otherState == Symbol("other", SYM_GLOBAL, LST_NULL)
defaultState == Symbol("default", SYM_GLOBAL, LST_NULL)

Check0 == BoolConversion(Binary("OP_LESS", LValue(li, ""), IntegerConstant(7), TRUE))
Stmt0 == ExpressionStatement(Binary("=", LValue(gv, "x"), LValue(lf, ""), FALSE))
Incr0 == Unary("OP_POST_INCR", LValue(li, ""), FALSE)

SimpleStatements ==
    {NopStatement, Stmt0, JumpStatement(lbl), ReturnStatement(NoNode),
     StateStatement(otherState), CompoundStatement(<<>>)}

Wrapped(S) ==
    {IfStatement(Check0, st, NoNode) : st \in S}
    \cup {IfStatement(Check0, st, Stmt0) : st \in S}
    \cup {ForStatement(<<Binary("=", LValue(li, ""), IntegerConstant(7), FALSE)>>, Check0,
                        st, <<Incr0>>) : st \in S}
    \cup {WhileStatement(Check0, st) : st \in S}
    \cup {DoStatement(st, Check0) : st \in S}
    \cup {CompoundStatement(<<st, NopStatement>>) : st \in S}

RECURSIVE Nested(_)
\* statements with at most d blocks inside one another
Nested(d) ==
    IF d = 0 THEN {Stmt0, ReturnStatement(NoNode), CompoundStatement(<<>>)}
    ELSE Nested(d - 1) \cup Wrapped(Nested(d - 1))

\* a handler body: the locals and the label the statements use, then one
\* statement
Bodies ==
    {CompoundStatement(<<Declaration(li, NoNode), Declaration(lf, LValue(gv, "y")),
                         Label(lbl), st>>) : st \in SimpleStatements \cup Nested(MaxNest)}

Body0 == CompoundStatement(<<ReturnStatement(LValue(Symbol("a", SYM_LOCAL, LST_INTEGER), ""))>>)

Function(name, body) ==
    GlobalFunction(Ident(name, LST_INTEGER), <<Ident("a", LST_INTEGER), Ident("b", LST_VECTOR)>>,
                   body)

States(body) ==
    NodeList(<<State(defaultState,
                     <<EventHandler(Ident("state_entry", LST_NULL), defaultState, <<>>, body)>>),
               State(otherState,
                     <<EventHandler(Ident("touch_start", LST_NULL), otherState,
                                    <<Ident("n", LST_INTEGER)>>,
                                    CompoundStatement(<<ReturnStatement(NoNode)>>)),
                       EventHandler(Ident("state_exit", LST_NULL), otherState, <<>>,
                                    CompoundStatement(<<>>))>>)>>)

\* what the i-th global declaration of a script is
GlobalKinds == {"function", "integer", "float", "vector", "copy"}

RECURSIVE LastInteger(_, _)
\* the index of the last integer variable among the first n declarations, or 0
LastInteger(kinds, n) ==
    IF n = 0 THEN 0
    ELSE IF kinds[n] \in {"integer", "copy"} THEN n
    ELSE LastInteger(kinds, n - 1)

\* a "copy" is an integer initialised from the integer variable declared
\* last before it, so it needs one
ValidKinds(kinds) ==
    \A i \in DOMAIN kinds : kinds[i] = "copy" => LastInteger(kinds, i - 1) # 0

GlobalAt(kinds, i) ==
    CASE kinds[i] = "function" -> Function(FunctionNames[i], Body0)
      [] kinds[i] = "integer" ->
            GlobalVariable(Symbol(GlobalNames[i], SYM_GLOBAL, LST_INTEGER), IntegerConstant(7))
      [] kinds[i] = "float" ->
            GlobalVariable(Symbol(GlobalNames[i], SYM_GLOBAL, LST_FLOATINGPOINT), NoNode)
      [] kinds[i] = "vector" ->
            GlobalVariable(Symbol(GlobalNames[i], SYM_GLOBAL, LST_VECTOR), NoNode)
      [] kinds[i] = "copy" ->
            GlobalVariable(Symbol(GlobalNames[i], SYM_GLOBAL, LST_INTEGER),
                           LValue(Symbol(GlobalNames[LastInteger(kinds, i - 1)],
                                         SYM_GLOBAL, LST_INTEGER), ""))

GlobalLists ==
    UNION {{[i \in 1..n |-> GlobalAt(kinds, i)] :
              kinds \in {k \in [1..n -> GlobalKinds] : ValidKinds(k)}} : n \in 0..MaxGlobals}

Globals0 ==
    <<GlobalVariable(gi, IntegerConstant(7)), GlobalVariable(gv, NoNode),
      GlobalVariable(gf, NoNode)>>

Scripts ==
    {Script(gs, States(CompoundStatement(<<>>))) : gs \in GlobalLists}
    \cup {Script(Globals0 \o <<Function("f4", Body0)>>, States(body)) : body \in Bodies}

Script0 == Script(Globals0 \o <<Function("f4", Body0)>>, States(CompoundStatement(<<>>)))

Environment(argc, inNamed, inOpens, found1, found2, outNamed, outOpens, outWrites) ==
    [pc |-> "main", argc |-> argc, inNamed |-> inNamed, inOpens |-> inOpens,
     found1 |-> found1, found2 |-> found2, outNamed |-> outNamed, outOpens |-> outOpens,
     outWrites |-> outWrites,
     errors |-> 0, ran |-> FALSE, py_code |-> <<>>, sent |-> <<>>, wrote |-> FALSE,
     out |-> <<>>, status |-> 0]

\* an unnamed stream is open already
Environments ==
    {Environment(argc, inNamed, inOpens, found1, found2, outNamed, outOpens, outWrites) :
        argc \in 1..MaxArgc, inNamed \in BOOLEAN, inOpens \in BOOLEAN,
        found1 \in 0..MaxErrors, found2 \in 0..MaxErrors,
        outNamed \in BOOLEAN, outOpens \in BOOLEAN, outWrites \in BOOLEAN}

Environment0 == Environment(3, TRUE, TRUE, 0, 0, TRUE, TRUE, TRUE)

\* main is entered
Init ==
    /\ \/ root \in Scripts /\ drv = Environment0
       \/ root = Script0 /\ drv \in Environments
    /\ platform \in Platforms
    /\ work = <<>>
    /\ mStr = <<>>
    /\ mTabs = 0
    /\ tabSetters = <<>>
    /\ visits = <<>>
    /\ lastVisit = NoVisit
    /\ fVal = F_ZERO
    /\ sim = SimOff

Next ==
    \/ CheckArguments \/ OpenInput \/ RunFrontEnd \/ StartGeneration \/ SkipGeneration
    \/ WriteOutput
    \/ visitScript \/ visitGlobalVariable \/ visitGlobalFunction \/ visitEventHandler
    \/ visitChildren
    \/ visitNopStatement \/ visitCompoundStatement \/ visitExpressionStatement
    \/ visitDeclaration \/ visitIfStatement \/ visitForStatement
    \/ visitWhileStatement \/ visitDoStatement \/ visitJumpStatement
    \/ visitLabel \/ visitReturnStatement \/ visitStateStatement
    \/ ReturnFromVisit \/ doTabs \/ Emit \/ VisitExpression \/ EnterBlock \/ LeaveBlock

Spec == Init /\ [][Next]_vars

-----------------------------------------------------------------------------
(* Properties of the expression visitors (SpecExpr).  Done holds once the  *)
(* visit of root has returned; Tr(e) is the translation of e.              *)

Done == work = <<>>
Tr(e) == visitExpression(e)

IsBinary(e) == e.t = "LSLBinaryExpression"
IsAssignment(e) == IsBinary(e) /\ e.op = "="
IsIncrDecr(e) == e.t = "LSLUnaryExpression" /\ e.op \in IncrDecrOps
IsGlobal(sym) == sym.sub = SYM_GLOBAL

\* the fixed helper name of every non-assignment operator
RHelper ==
    [op \in BinaryOps |->
        CASE op = "+" -> "radd(" [] op = "-" -> "rsub(" [] op = "*" -> "rmul("
          [] op = "/" -> "rdiv(" [] op = "%" -> "rmod(" [] op = "OP_EQ" -> "req("
          [] op = "OP_NEQ" -> "rneq(" [] op = "OP_GREATER" -> "rgreater("
          [] op = "OP_LESS" -> "rless(" [] op = "OP_GEQ" -> "rgeq("
          [] op = "OP_LEQ" -> "rleq(" [] op = "OP_BOOLEAN_AND" -> "rbooland("
          [] op = "OP_BOOLEAN_OR" -> "rboolor(" [] op = "OP_BIT_AND" -> "rbitand("
          [] op = "OP_BIT_OR" -> "rbitor(" [] op = "OP_BIT_XOR" -> "rbitxor("
          [] op = "OP_SHIFT_LEFT" -> "rshl(" [] op = "OP_SHIFT_RIGHT" -> "rshr("]

\* the fixed offsets of the coordinate members, as text
OffsetText == [m \in {"x", "y", "z", "s"} |->
                 CASE m = "x" -> "0" [] m = "y" -> "1" [] m = "z" -> "2" [] m = "s" -> "3"]

\* the reference to the variable behind a symbol
VarRef(sym) == (IF IsGlobal(sym) THEN <<"self.">> ELSE <<>>) \o <<sym.name>>

\* replace_coord_axis(v, offset(m), rhs)
Replaced(lv, rhs) ==
    <<"replace_coord_axis(">> \o VarRef(lv.sym) \o <<", ", OffsetText[lv.member], ", ">>
      \o Tr(rhs) \o <<")">>

\* C1: every binary expression other than plain '=', at every depth of the
\* visited expression, is emitted as one call of the operator's r-helper
\* with the translation of the right operand first and of the left operand
\* second; the rmul call of a compound multiply-assignment has the same order.
C1_RightOperandFirst ==
    Done =>
      /\ mStr = Tr(root)
      /\ \A b \in SubExprs(root) :
            IsBinary(b) /\ b.op # "=" =>
              /\ Occurs(Tr(b), mStr)
              /\ b.op \in BinaryOps =>
                    Tr(b) = <<RHelper[b.op]>> \o Tr(b.rhs) \o <<", ">> \o Tr(b.lhs) \o <<")">>
              /\ b.op = "OP_MUL_ASSIGN" =>
                    Occurs(<<"typecast(rmul(">> \o Tr(b.rhs) \o <<", ">> \o Tr(b.lhs)
                             \o <<"), ", "int", "))">>, Tr(b))

\* a shift whose left operand is itself an operator expression has been emitted
C1_Witness ==
    /\ Done
    /\ IsBinary(root) /\ root.op = "OP_SHIFT_RIGHT"
    /\ IsBinary(root.lhs) /\ root.lhs.op = "-" /\ root.lhs.lhs # root.lhs.rhs
    /\ root.rhs = LValue(gi, "")
    /\ SubSeq(mStr, 1, 4) = <<"rshr(", "self.", "gi", ", ">>

\* C2: a plain assignment to a coordinate member v.m rebinds the whole
\* variable v (self.v, the name v, or the assign helper keyed by v's name)
\* to replace_coord_axis(v, offset(m), rhs) with x=0, y=1, z=2, s=3, and no
\* emitted assignment has an indexed component as its target.
C2_MemberAssignRebindsWhole ==
    Done =>
      /\ \A a \in SubExprs(root) :
            IsAssignment(a) /\ a.lhs.member # "" =>
              /\ Occurs(Tr(a), mStr)
              /\ LET v == a.lhs.sym
                     binding ==
                        IF ~a.needed THEN VarRef(v) \o <<" = ">>
                        ELSE IF IsGlobal(v) THEN <<"assign(self.__dict__, \"", v.name, "\", ">>
                        ELSE <<"(", v.name, " := ">>
                 IN  SubSeq(Tr(a), 1, Len(binding) + Len(Replaced(a.lhs, a.rhs)))
                        = binding \o Replaced(a.lhs, a.rhs)
      /\ \A i \in 1..(Len(mStr) - 1) :
            mStr[i] = "]" => mStr[i + 1] \notin {" = ", " := ", " += ", " -= "}

\* the s member of a local quaternion and the z member of a global vector
\* have been assigned, one with its result used
C2_Witness ==
    /\ Done
    /\ IsAssignment(root) /\ root.lhs = LValue(lq, "s") /\ ~root.needed
    /\ IsAssignment(root.rhs) /\ root.rhs.lhs = LValue(gv, "z")
    /\ SubSeq(mStr, 1, 5) = <<"lq", " = ", "replace_coord_axis(", "lq", ", ">>
    /\ mStr[6] = "3"

IsMulAssign(e) == IsBinary(e) /\ e.op = "OP_MUL_ASSIGN"

\* the rebinding of a variable to a value that follows: the assign helper
\* for a global, an inline binding for a local
Rebind(sym) ==
    IF IsGlobal(sym) THEN <<"assign(self.__dict__, \"", sym.name, "\", ">>
    ELSE <<"(", sym.name, " := ">>

\* C11: every compound multiply-assignment, at every depth of the visited
\* expression, is emitted as the rebinding of its target variable (assign
\* helper for a global, inline binding for a local) to
\* typecast(rmul(rhs, lhs), T), where T is the host name of the declared
\* type of the target symbol.
C11_MulAssignRecastsToTargetType ==
    Done =>
      \A b \in SubExprs(root) :
        IsMulAssign(b) =>
          /\ Occurs(Tr(b), mStr)
          /\ Tr(b) = Rebind(b.lhs.sym)
                       \o <<"typecast(rmul(">> \o Tr(b.rhs) \o <<", ">> \o Tr(b.lhs)
                       \o <<"), ", PY_TYPE_NAMES[b.lhs.sym.type], "))">>

\* a global integer has been multiplied by a float in place
C11_Witness ==
    /\ Done
    /\ IsMulAssign(root) /\ root.lhs = LValue(gi, "")
    /\ IType(root.rhs) = LST_FLOATINGPOINT
    /\ SubSeq(mStr, 1, 4) = <<"assign(self.__dict__, \"", "gi", "\", ", "typecast(rmul(">>
    /\ SubSeq(mStr, Len(mStr) - 2, Len(mStr)) = <<"), ", "int", "))">>

\* the text of one for the type of an increment's target
UnitText(lv) == IF IType(lv) = LST_INTEGER THEN <<"1">> ELSE <<"1", ".0">>

\* C6: a pre/post increment/decrement is emitted as the statement
\* `<target> += <one>` / `<target> -= <one>` if and only if its result is not
\* needed and its target has no coordinate member (<one> is 1, written 1.0
\* for a float target); otherwise as exactly one of preincr, postincr,
\* predecr, postdecr with self.__dict__ or locals(), the quoted name, and the
\* member offset if and only if there is a member.
C6_IncrDecrForm ==
    Done =>
      \A u \in SubExprs(root) :
        IsIncrDecr(u) =>
          LET lv == u.child
              simple == ~u.needed /\ lv.member = ""
              incr == u.op \in {"OP_PRE_INCR", "OP_POST_INCR"}
              pre == u.op \in {"OP_PRE_INCR", "OP_PRE_DECR"}
          IN  /\ Occurs(Tr(u), mStr)
              /\ simple <=> (\E i \in DOMAIN Tr(u) : Tr(u)[i] \in {" += ", " -= "})
              /\ simple =>
                    Tr(u) = VarRef(lv.sym) \o <<IF incr THEN " += " ELSE " -= ">> \o UnitText(lv)
              /\ ~simple =>
                    Tr(u) = <<IF pre THEN "pre" ELSE "post", IF incr THEN "incr" ELSE "decr",
                              "(", IF IsGlobal(lv.sym) THEN "self.__dict__" ELSE "locals()",
                              ", \"", lv.sym.name, "\"">>
                            \o (IF lv.member # "" THEN <<", ", OffsetText[lv.member]>> ELSE <<>>)
                            \o <<")">>

\* a post-decrement of a member whose result is not needed came out as the helper
C6_Witness ==
    /\ Done
    /\ IsIncrDecr(root) /\ root.op = "OP_POST_DECR" /\ ~root.needed
    /\ root.child = LValue(gv, "y")
    /\ mStr = <<"post", "decr", "(", "self.__dict__", ", \"", "gv", "\"", ", ", "1", ")">>

\* C10: a plain assignment whose result is needed is emitted through
\* assign(self.__dict__, "<name>", <value>) for a global target and as
\* (<name> := <value>) for a local one, never the other way round; with a
\* coordinate member <value> is the replace_coord_axis composite and the
\* expression is followed by exactly one index [offset]; an assignment whose
\* result is not needed emits neither the helper nor ':='.
C10_NeededAssignment ==
    Done =>
      \A a \in SubExprs(root) :
        IsAssignment(a) =>
          LET v == a.lhs.sym
              value == IF a.lhs.member # "" THEN Replaced(a.lhs, a.rhs) ELSE Tr(a.rhs)
              index == IF a.lhs.member # "" THEN <<"[", OffsetText[a.lhs.member], "]">>
                       ELSE <<>>
          IN  /\ Occurs(Tr(a), mStr)
              /\ a.needed /\ IsGlobal(v) =>
                    Tr(a) = <<"assign(self.__dict__, \"", v.name, "\", ">> \o value
                              \o <<")">> \o index
              /\ a.needed /\ ~IsGlobal(v) =>
                    Tr(a) = <<"(", v.name, " := ">> \o value \o <<")">> \o index
              /\ ~a.needed =>
                    Tr(a) = VarRef(v) \o <<" = ">> \o value

\* a needed assignment to a member of a global, nested in a needed
\* assignment to a local, has been emitted
C10_Witness ==
    /\ Done
    /\ IsAssignment(root) /\ root.needed /\ root.lhs = LValue(lf, "")
    /\ IsAssignment(root.rhs) /\ root.rhs.lhs = LValue(gv, "z")
    /\ SubSeq(mStr, 1, 6) = <<"(", "lf", " := ", "assign(self.__dict__, \"", "gv", "\", ">>
    /\ SubSeq(mStr, Len(mStr) - 3, Len(mStr)) = <<"[", "2", "]", ")">>

-----------------------------------------------------------------------------
(* Properties of the driver and of the script visitor (Spec) *)

Exited == drv.pc = "exit"
Generated == Exited /\ drv.ran

\* two runs of segments become one: the open last segment of the first
\* continues in the first segment of the second
JoinSegments(A, B) == SubSeq(A, 1, Len(A) - 1) \o <<A[Len(A)] \o B[1]>> \o Tail(B)

RECURSIVE Segments(_, _, _)
\* ts[lo..hi] cut at every "\n"; the last segment is what follows the last "\n"
Segments(ts, lo, hi) ==
    IF lo > hi THEN <<<<>>>>
    ELSE IF lo = hi THEN (IF ts[lo] = "\n" THEN <<<<>>, <<>>>> ELSE <<<<ts[lo]>>>>)
    ELSE LET mid == (lo + hi) \div 2
         IN  JoinSegments(Segments(ts, lo, mid), Segments(ts, mid + 1, hi))

\* the lines of a text; what follows the last "\n" is a line unless empty
SplitLines(ts) ==
    LET segs == Segments(ts, 1, Len(ts))
    IN  IF segs[Len(segs)] = <<>> THEN SubSeq(segs, 1, Len(segs) - 1) ELSE segs

RECURSIVE Indent(_)
\* the number of indentation tokens a line starts with
Indent(line) ==
    IF line # <<>> /\ Head(line) = "    " THEN 1 + Indent(Tail(line)) ELSE 0

\* the lines of a text, each as [i: its number, ind: its indentation, c: the rest]
Lines(ts) ==
    LET ls == SplitLines(ts)
    IN  [i \in DOMAIN ls |->
           [i |-> i, ind |-> Indent(ls[i]),
            c |-> SubSeq(ls[i], Indent(ls[i]) + 1, Len(ls[i]))]]

InitializerOf(glob_var) ==
    IF glob_var.init = NoNode THEN DefaultValue(glob_var.sym.type) ELSE glob_var.init

\* C4: the emitted class has exactly one class-level type declaration and
\* exactly one `self.<name> = <initializer>` per global variable, both in
\* source order; the declarations precede __init__, the assignments are the
\* body of __init__ and precede every method; so the assignments before that
\* of the k-th global variable are those of the variables declared before it.
C4_GlobalsInSourceOrder ==
    Generated =>
      LET L == Lines(drv.py_code)
          gvars == SelectSeq(root.globals, IsGlobalVariable)
          IsCtor(l) == l.c = <<"def __init__(self):">>
          ctors == SelectSeq(L, IsCtor)
          ctor == ctors[1].i
          IsDecl(l) == l.ind = 1 /\ Len(l.c) = 3 /\ l.c[2] = ": "
          decls == SelectSeq(L, IsDecl)
          IsMethod(l) == l.c = <<"@with_goto">>
          methods == SelectSeq(L, IsMethod)
          \* the body of __init__ ends at the first empty line after its header
          InCtor(l) == l.i > ctor + 1 /\ \A j \in (ctor + 1)..l.i : L[j].c # <<>>
          IsAssign(l) == Len(l.c) > 3 /\ l.c[1] = "self." /\ l.c[3] = " = "
          IsCtorAssign(l) == InCtor(l) /\ IsAssign(l)
          assigns == SelectSeq(L, IsCtorAssign)
          IsStray(l) == l.ind <= 2 /\ IsAssign(l) /\ ~InCtor(l) /\ l.i < ctor
      IN  /\ Len(ctors) = 1
          /\ L[ctor + 1].c = <<"super().__init__()">>
          /\ Len(decls) = Len(gvars)
          /\ \A k \in DOMAIN gvars :
                /\ decls[k].c = <<gvars[k].sym.name, ": ", PY_TYPE_NAMES[gvars[k].sym.type]>>
                /\ decls[k].i < ctor
          /\ Len(assigns) = Len(gvars)
          /\ \A k \in DOMAIN gvars :
                /\ assigns[k].c = <<"self.", gvars[k].sym.name, " = ">>
                                     \o Tr(InitializerOf(gvars[k]))
                /\ assigns[k].ind = 2
                /\ assigns[k].i = ctor + 1 + k
                /\ \A m \in DOMAIN methods : assigns[k].i < methods[m].i
                /\ {assigns[j].c[2] : j \in 1..(k - 1)}
                      = {gvars[j].sym.name : j \in 1..(k - 1)}
          /\ SelectSeq(L, IsStray) = <<>>
          /\ \A m \in DOMAIN methods : methods[m].i > ctor

\* a function declared between two variables, the later variable
\* initialised from the earlier one
C4_Witness ==
    /\ Generated
    /\ Len(root.globals) = 3
    /\ IsGlobalVariable(root.globals[1])
    /\ IsGlobalFunction(root.globals[2])
    /\ IsGlobalVariable(root.globals[3])
    /\ root.globals[3].init = LValue(root.globals[1].sym, "")
    /\ Occurs(<<"    ", "    ", "self.", "g3", " = ", "self.", "g1", "\n">>, drv.out)

ReachedFrontEnd == drv.argc = 3 /\ (drv.inNamed => drv.inOpens)
OutputOpenFailed == drv.ran /\ drv.outNamed /\ ~drv.outOpens

\* C7 as stated: in every run the exit status is the front end's error
\* count, the visitor runs iff the count is zero, status zero implies the
\* output was generated and written, and errors imply no output.
C7_StatusIsErrorCount ==
    Exited =>
      /\ drv.status = drv.errors
      /\ drv.ran <=> drv.errors = 0
      /\ drv.status = 0 => drv.ran /\ drv.py_code # <<>> /\ drv.out = drv.py_code
      /\ drv.errors # 0 => drv.py_code = <<>> /\ ~drv.wrote /\ drv.out = <<>>

\* C7 amended: in every run that reaches the front end (two arguments, input
\* opened) the visitor runs iff the error count is zero; unless the output
\* file then fails to open, the exit status is the error count; in every run
\* status zero implies the visitor ran and its whole text was passed to the
\* write of the destination, and errors imply that no text was generated or
\* written.
C7_StatusIsErrorCountWhenFilesOpen ==
    Exited =>
      /\ ReachedFrontEnd => (drv.ran <=> drv.errors = 0)
      /\ ReachedFrontEnd /\ ~OutputOpenFailed => drv.status = drv.errors
      /\ drv.status = 0 =>
            drv.ran /\ drv.wrote /\ drv.sent = drv.py_code /\ drv.py_code = mStr
                    /\ mStr # <<>>
      /\ drv.errors # 0 => ~drv.ran /\ drv.py_code = <<>> /\ ~drv.wrote /\ drv.out = <<>>

\* errors found by the second round of passes: the run ended with their
\* count and never touched the output file, which would not have opened
C7_Witness ==
    /\ Exited
    /\ drv.errors = MaxErrors /\ drv.found1 = 0 /\ drv.status = MaxErrors /\ ~drv.ran
    /\ drv.outNamed /\ ~drv.outOpens

\* the exit statuses that front-end error counts produce
ErrorStatuses == 0..MaxErrors
OutputFailed ==
    drv.ran /\ ((drv.outNamed /\ ~drv.outOpens) \/ (drv.wrote /\ ~drv.outWrites))

\* C8: a run whose output destination cannot be opened or written ends with
\* a status that no front-end error count (and no usage or input failure,
\* which end with 1) produces.
C8_OutputFailureDistinct ==
    Exited /\ OutputFailed => drv.status \notin (ErrorStatuses \cup {1})

\* C9: mTabs is scoped.  It is never negative; it is one more than the value
\* the innermost live ScopedTabSetter saved, so each nested block is exactly
\* one deeper than what encloses it; every visit returns with the mTabs it
\* began with; after the whole tree it is 0 again.
C9_TabsScoped ==
    /\ mTabs >= 0
    /\ mTabs = Len(tabSetters)
    /\ tabSetters # <<>> => mTabs = Head(tabSetters) + 1
    /\ lastVisit.exit = lastVisit.entry
    /\ \A i \in 1..(Len(visits) - 1) : visits[i] >= visits[i + 1]
    /\ (drv.pc = "visit" /\ work = <<>>) \/ Exited => mTabs = 0 /\ tabSetters = <<>>

\* a counted loop inside a conditional inside a handler has returned
C9_Witness ==
    /\ lastVisit.t = "LSLForStatement"
    /\ lastVisit.entry = 3 /\ lastVisit.exit = 3
    /\ Len(visits) >= 4
    /\ Occurs(<<"    ", "    ", "    ", "    ", "    ", "break">>, mStr)

-----------------------------------------------------------------------------
(* Properties of writeFloat (SpecFloat): what the emitted text denotes *)

DigitOf(tok) == CHOOSE d \in 0..9 : DigitTok[d + 1] = tok
HexOf(tok) == CHOOSE d \in 0..15 : HexTok[d + 1] = tok

RECURSIVE DigitsToNat(_, _)
DigitsToNat(ds, acc) ==
    IF ds = <<>> THEN acc ELSE DigitsToNat(Tail(ds), (10 * acc) + Head(ds))

RECURSIVE Quotient(_, _, _)
\* the digits of a number divided by k, given the remainder carried in
Quotient(ds, k, carry) ==
    IF ds = <<>> THEN <<>>
    ELSE LET d == (10 * carry) + Head(ds)
         IN  <<d \div k>> \o Quotient(Tail(ds), k, d % k)

RECURSIVE Remainder(_, _, _)
Remainder(ds, k, carry) ==
    IF ds = <<>> THEN carry ELSE Remainder(Tail(ds), k, ((10 * carry) + Head(ds)) % k)

RECURSIVE StripZeros(_)
StripZeros(ds) == IF Len(ds) > 1 /\ Head(ds) = 0 THEN StripZeros(Tail(ds)) ELSE ds

Significant == 2 * Hidden

TooWide(ds) == Len(ds) > 8 \/ DigitsToNat(ds, 0) >= Significant

\* how many bits can be dropped at once with more than 24 left
DropBits(ds) == IF Len(ds) > 13 THEN 16 ELSE IF Len(ds) > 9 THEN 4 ELSE 1

RECURSIVE Narrow(_, _, _, _)
\* drop low bits until 24 are left: [m, shift, guard, sticky], guard the
\* last bit dropped and sticky whether any bit below it was set
Narrow(ds, shift, guard, sticky) ==
    IF TooWide(ds)
    THEN LET bits == DropBits(ds)
             r == Remainder(ds, Pow2(bits), 0)
             half == Pow2(bits - 1)
         IN  Narrow(StripZeros(Quotient(ds, Pow2(bits), 0)), shift + bits,
                    r >= half, sticky \/ guard \/ r % half # 0)
    ELSE [m |-> DigitsToNat(ds, 0), shift |-> shift, guard |-> guard, sticky |-> sticky]

RECURSIVE Normal(_, _)
\* scale the significand up to 24 bits
Normal(m, shift) == IF m >= Hidden THEN [m |-> m, shift |-> shift] ELSE Normal(2 * m, shift - 1)

\* the float nearest to the integer with the given sign and decimal digits
\* (ties to even), as a literal of the host language denotes it
NearestFloat(neg, digits) ==
    LET ds == StripZeros(digits)
        n == Narrow(ds, 0, FALSE, FALSE)
        up == n.guard /\ (n.sticky \/ n.m % 2 = 1)
        m1 == IF up THEN n.m + 1 ELSE n.m
        r == IF m1 = Significant THEN [m |-> Hidden, shift |-> n.shift + 1]
             ELSE Normal(m1, n.shift)
    IN  IF ds = <<0>> THEN [sign |-> IF neg THEN 1 ELSE 0, exp |-> 0, man |-> 0]
        ELSE [sign |-> IF neg THEN 1 ELSE 0,
              exp |-> ExpBias + ManBits + r.shift,
              man |-> r.m - Hidden]

\* a decimal literal: an optional sign, digits, then ".0"
IsDecimalLiteral(ts) ==
    \/ ts = <<"-0.0">>
    \/ /\ Len(ts) >= 2
       /\ ts[Len(ts)] = ".0"
       /\ LET first == IF ts[1] = "-" THEN 2 ELSE 1
          IN  /\ first < Len(ts)
              /\ \A i \in first..(Len(ts) - 1) : ts[i] \in Range(DigitTok)

DecimalValue(ts) ==
    IF ts = <<"-0.0">> THEN [sign |-> 1, exp |-> 0, man |-> 0]
    ELSE LET first == IF ts[1] = "-" THEN 2 ELSE 1
         IN  NearestFloat(ts[1] = "-",
                          [i \in 1..(Len(ts) - first) |-> DigitOf(ts[first + i - 1])])

\* bin2float('<hint>', '<8 hex digits>')
IsBinLiteral(ts) ==
    /\ Len(ts) = 12
    /\ ts[1] = "bin2float('" /\ ts[3] = "', '" /\ ts[12] = "')"
    /\ \A i \in 4..11 : ts[i] \in Range(HexTok)

\* the float whose bytes, in host order, the hex digits spell
BinValue(ts) ==
    LET byte(k) == (16 * HexOf(ts[2 + (2 * k)])) + HexOf(ts[3 + (2 * k)])
    IN  [sign |-> byte(4) \div 128,
         exp |-> ((byte(4) % 128) * 2) + (byte(3) \div 128),
         man |-> ((byte(3) % 128) * 65536) + (byte(2) * 256) + byte(1)]

\* C5: for every float whose nearest-integer rounding equals it (integral
\* values of any magnitude, both zeros, both infinities) writeFloat emits a
\* decimal literal `<integer>.0` that denotes exactly that float, -0.0 as
\* "-0.0"; for every other float it emits a bin2float call whose hex digits
\* are the four bytes of the float's bit pattern.
C5_FloatRoundTrips ==
    Done =>
      /\ IsIntLike(fVal) =>
            /\ IsDecimalLiteral(mStr)
            /\ DecimalValue(mStr) = fVal
            /\ IsZero(fVal) /\ fVal.sign = 1 => mStr = <<"-0.0">>
      /\ ~IsIntLike(fVal) =>
            /\ IsBinLiteral(mStr)
            /\ BinValue(mStr) = fVal

-----------------------------------------------------------------------------
(* The counted loop: executed as the source language defines it, and as the *)
(* host language executes the emitted text                                  *)

MaxClauses == 2
MaxSteps == 12

SetGi == Binary("=", LValue(gi, ""), IntegerConstant(1), FALSE)
ClauseExprs == {Incr0, SetGi}
ClauseLists == UNION {[1..n -> ClauseExprs] : n \in 0..MaxClauses}
LoopChecks ==
    {BoolConversion(Binary("OP_LESS", LValue(li, ""), IntegerConstant(2), TRUE)),
     BoolConversion(Binary("OP_LESS", LValue(gi, ""), IntegerConstant(1), TRUE))}
LoopBodies ==
    {NopStatement, CompoundStatement(<<>>), ExpressionStatement(Incr0),
     CompoundStatement(<<ExpressionStatement(SetGi), NopStatement>>)}
ForLoops ==
    {ForStatement(I, C, B, K) :
        I \in ClauseLists, C \in LoopChecks, B \in LoopBodies, K \in ClauseLists}

LoopVars == {li, gi}
\* the values of the variables when the loop is reached
Stores == {[name \in {v.name : v \in LoopVars} |-> IF name = gi.name THEN g ELSE 0] :
             g \in {0, 1}}
\* the same store as the emitted text names it
PyStore(store) ==
    [ref \in {Tr(LValue(v, "")) : v \in LoopVars} |->
        store[(CHOOSE v \in LoopVars : Tr(LValue(v, "")) = ref).name]]

\* the value of an expression of the source language
RECURSIVE Value(_, _)
Value(e, env) ==
    CASE e.t = "LSLIntegerConstant" -> e.value
      [] e.t = "LSLLValueExpression" -> env[e.sym.name]
      [] e.t = "LSLBoolConversionExpression" -> IF Value(e.child, env) # 0 THEN 1 ELSE 0
      [] e.t = "LSLBinaryExpression" /\ e.op = "OP_LESS" ->
            IF Value(e.lhs, env) < Value(e.rhs, env) THEN 1 ELSE 0

\* the store after a clause of the source language
Exec(e, env) ==
    CASE e.t = "LSLBinaryExpression" /\ e.op = "=" ->
            [env EXCEPT ![e.lhs.sym.name] = Value(e.rhs, env)]
      [] e.t = "LSLUnaryExpression" /\ e.op \in {"OP_POST_INCR", "OP_PRE_INCR"} ->
            [env EXCEPT ![e.child.sym.name] = @ + 1]
      [] e.t = "LSLUnaryExpression" /\ e.op \in {"OP_POST_DECR", "OP_PRE_DECR"} ->
            [env EXCEPT ![e.child.sym.name] = @ - 1]

RECURSIVE Effects(_)
\* the expressions a loop body evaluates, in order
Effects(stmt) ==
    CASE stmt.t = "LSLNopStatement" -> <<>>
      [] stmt.t = "LSLExpressionStatement" -> <<stmt.expr>>
      [] stmt.t = "LSLCompoundStatement" ->
            Flatten([i \in DOMAIN stmt.children |-> Effects(stmt.children[i])])

RECURSIVE Settle(_, _, _)
\* the next clause of for (I; C; K) B from a position: I once, then C, B, K
Settle(f, ph, i) ==
    IF ph = "I" /\ i > Len(f.inits) THEN [ph |-> "C", i |-> 1]
    ELSE IF ph = "B" /\ i > Len(Effects(f.body)) THEN Settle(f, "K", 1)
    ELSE IF ph = "K" /\ i > Len(f.incrs) THEN [ph |-> "C", i |-> 1]
    ELSE [ph |-> ph, i |-> i]

\* one clause of the native counted loop is evaluated
NativeStep ==
    /\ sim.on /\ work = <<>>
    /\ ~sim.n.done /\ Len(sim.n.trace) < MaxSteps
    /\ LET n == sim.n
           pos == Settle(root, n.ph, n.i)
           e == CASE pos.ph = "I" -> root.inits[pos.i]
                  [] pos.ph = "C" -> root.check
                  [] pos.ph = "B" -> Effects(root.body)[pos.i]
                  [] pos.ph = "K" -> root.incrs[pos.i]
           holds == Value(root.check, n.env) # 0
       IN  sim' = [sim EXCEPT !.n =
              IF pos.ph = "C"
              THEN [ph |-> "B", i |-> 1, env |-> n.env, trace |-> Append(n.trace, e),
                    iters |-> IF holds THEN n.iters + 1 ELSE n.iters, done |-> ~holds]
              ELSE [ph |-> pos.ph, i |-> pos.i + 1, env |-> Exec(e, n.env),
                    trace |-> Append(n.trace, e), iters |-> n.iters, done |-> FALSE]]
    /\ UNCHANGED <<root, platform, work, mStr, mTabs, tabSetters, visits, lastVisit, fVal, drv>>

\* the line whose block line j is in
Owner(ls, j) ==
    CHOOSE i \in 1..(j - 1) :
        /\ ls[i].ind < ls[j].ind
        /\ \A k \in (i + 1)..(j - 1) : ls[k].ind >= ls[j].ind

\* the first line after statement j that is not inside it, 0 if none
NextOutside(ls, j) ==
    LET after == {k \in (j + 1)..Len(ls) : ls[k].ind <= ls[j].ind}
    IN  IF after = {} THEN 0 ELSE CHOOSE k \in after : \A m \in after : k <= m

IsLoopHead(ls, j) == ls[j].c = <<"while True:">>

RECURSIVE Follow(_, _)
\* where control goes when statement j is complete: the next statement of
\* its block, or back to the head of the loop whose body ends here, or on
\* from the statement whose block ends here; past the last line at the end
Follow(ls, j) ==
    LET k == NextOutside(ls, j)
    IN  IF k # 0 /\ ls[k].ind = ls[j].ind THEN k
        ELSE IF ls[j].ind = ls[1].ind THEN Len(ls) + 1
        ELSE LET o == Owner(ls, j)
             IN  IF IsLoopHead(ls, o) THEN o ELSE Follow(ls, o)

RECURSIVE EnclosingLoop(_, _)
EnclosingLoop(ls, j) ==
    LET o == Owner(ls, j) IN IF IsLoopHead(ls, o) THEN o ELSE EnclosingLoop(ls, o)

\* cond(x) and cond(rless(a, x)): rless(a, x) is x < a
PyTruth(cond, env) ==
    LET inner == SubSeq(cond, 2, Len(cond) - 1)
    IN  IF inner[1] = "rless("
        THEN env[SubSeq(inner, 4, Len(inner) - 1)] < DigitOf(inner[2])
        ELSE env[inner] # 0

\* x = v, x += v, x -= v
PyExec(c, env) ==
    LET k == IF c[1] = "self." THEN 2 ELSE 1
        ref == SubSeq(c, 1, k)
        v == DigitOf(c[k + 2])
    IN  CASE c[k + 1] = " = " -> [env EXCEPT ![ref] = v]
          [] c[k + 1] = " += " -> [env EXCEPT ![ref] = @ + v]
          [] c[k + 1] = " -= " -> [env EXCEPT ![ref] = @ - v]

\* the host language reads the emitted text
PyLoad ==
    /\ sim.on /\ work = <<>>
    /\ sim.p.pc = 0
    /\ sim' = [sim EXCEPT !.p.lines = Lines(mStr), !.p.pc = 1]
    /\ UNCHANGED <<root, platform, work, mStr, mTabs, tabSetters, visits, lastVisit, fVal, drv>>

\* one line of the emitted text is executed
PyStep ==
    /\ sim.on /\ sim.p.pc > 0
    /\ ~sim.p.done /\ Len(sim.p.trace) < MaxSteps
    /\ LET ls == sim.p.lines
           p == sim.p
           j == p.pc
           c == ls[j].c
           isIf == c[1] = "if not "
           isExpr == ~isIf /\ c \notin {<<"while True:">>, <<"break">>, <<"pass">>}
           cond == SubSeq(c, 2, Len(c) - 1)
           pc == CASE c = <<"while True:">> -> j + 1
                   [] c = <<"break">> -> Follow(ls, EnclosingLoop(ls, j))
                   [] isIf -> IF PyTruth(cond, p.env) THEN Follow(ls, j) ELSE j + 1
                   [] OTHER -> Follow(ls, j)
       IN  sim' = [sim EXCEPT !.p =
              [lines |-> ls,
               pc |-> pc,
               env |-> IF isExpr THEN PyExec(c, p.env) ELSE p.env,
               trace |-> IF isIf THEN Append(p.trace, cond)
                         ELSE IF isExpr THEN Append(p.trace, c) ELSE p.trace,
               iters |-> IF pc <= j THEN p.iters + 1 ELSE p.iters,
               done |-> pc > Len(ls)]]
    /\ UNCHANGED <<root, platform, work, mStr, mTabs, tabSetters, visits, lastVisit, fVal, drv>>

\* the visitor reaches a counted loop in the body of a function
InitFor ==
    /\ root \in ForLoops
    /\ platform = "x86_64"
    /\ work = <<W_visit(root)>>
    /\ mStr = <<>>
    /\ tabSetters = <<1, 0>>
    /\ mTabs = Len(tabSetters)
    /\ visits = <<>>
    /\ lastVisit = NoVisit
    /\ fVal = F_ZERO
    /\ drv = DrvOff
    /\ \E store \in Stores :
          sim = [on |-> TRUE,
                 n |-> [ph |-> "I", i |-> 1, env |-> store, trace |-> <<>>, iters |-> 0,
                        done |-> FALSE],
                 p |-> [lines |-> <<>>, pc |-> 0, env |-> PyStore(store), trace |-> <<>>,
                        iters |-> 0, done |-> FALSE]]

NextFor ==
    \/ visitForStatement \/ visitNopStatement \/ visitCompoundStatement
    \/ visitExpressionStatement
    \/ ReturnFromVisit \/ doTabs \/ Emit \/ VisitExpression \/ EnterBlock \/ LeaveBlock
    \/ NativeStep \/ PyLoad \/ PyStep

SpecFor == InitFor /\ [][NextFor]_vars

-----------------------------------------------------------------------------
(* Properties of the counted loop (SpecFor) *)

IsPrefix(s, t) == Len(s) <= Len(t) /\ SubSeq(t, 1, Len(s)) = s

Line(ind, c) == [ind |-> ind, c |-> c]

Numbered(ls) == [i \in DOMAIN ls |-> [i |-> i, ind |-> ls[i].ind, c |-> ls[i].c]]

ClauseLines(exprs, ind) == [i \in DOMAIN exprs |-> Line(ind, Tr(exprs[i]))]

RECURSIVE StatementLines(_, _)
\* a statement without control flow as lines of the host language
StatementLines(stmt, ind) ==
    CASE stmt.t = "LSLNopStatement" -> <<Line(ind, <<"pass">>)>>
      [] stmt.t = "LSLExpressionStatement" -> <<Line(ind, Tr(stmt.expr))>>
      [] stmt.t = "LSLCompoundStatement" ->
            IF stmt.children = <<>> THEN <<Line(ind, <<"pass">>)>>
            ELSE Flatten([i \in DOMAIN stmt.children |->
                            StatementLines(stmt.children[i], ind)])

\* I; loop forever: if not C, break; B; K
LoopLines(f, ind) ==
    ClauseLines(f.inits, ind)
      \o <<Line(ind, <<"while True:">>),
           Line(ind + 1, <<"if not ">> \o Tr(f.check) \o <<":">>),
           Line(ind + 2, <<"break">>)>>
      \o StatementLines(f.body, ind + 1)
      \o ClauseLines(f.incrs, ind + 1)

\* the clauses the native loop has evaluated, as the emitted text spells them
NativeTrace == [i \in DOMAIN sim.n.trace |-> Tr(sim.n.trace[i])]

SameSoFar(nt, pt) ==
    /\ IsPrefix(nt, pt) \/ IsPrefix(pt, nt)
    /\ sim.n.done => IsPrefix(pt, nt)
    /\ sim.p.done => IsPrefix(nt, pt)
    /\ Len(nt) = Len(pt) => sim.p.env = PyStore(sim.n.env)
    /\ sim.n.done /\ sim.p.done => pt = nt /\ sim.p.iters = sim.n.iters

\* C3: for (I; C; K) B is emitted as the clauses of I, one statement each in
\* order, then `while True:` whose body is `if not C:` `break`, then B, then
\* the clauses of K, one statement each in order; and the emitted text
\* evaluates the same clauses in the same order as the native loop (I once;
\* then C, B, K repeated; ending on the first false C), leaves the same
\* values in the variables, and runs the same number of iterations, also
\* with no iteration at all and with I or K empty.
C3_ForLoopEquivalent ==
    Done =>
      /\ Lines(mStr) = Numbered(LoopLines(root, mTabs))
      /\ SameSoFar(NativeTrace, sim.p.trace)

\* both executions of a loop with two init clauses, an effect in the body
\* and an increment have ended after two iterations
C3_Witness ==
    /\ Done
    /\ sim.n.done /\ sim.p.done
    /\ sim.n.iters = 2 /\ sim.p.iters = 2
    /\ Len(root.inits) = 2 /\ root.incrs # <<>> /\ Effects(root.body) # <<>>

-----------------------------------------------------------------------------
(* Method names: scripts whose functions, states and events are named so    *)
(* that the names can run into one another                                  *)

voidBody == CompoundStatement(<<>>)
VoidFunction(name) == GlobalFunction(Ident(name, LST_NULL), <<>>, voidBody)

state_entry(state) == EventHandler(Ident("state_entry", LST_NULL), state, <<>>, voidBody)
collision(state) ==
    EventHandler(Ident("collision", LST_NULL), state, <<Ident("n", LST_INTEGER)>>, voidBody)
land_collision(state) ==
    EventHandler(Ident("land_collision", LST_NULL), state, <<Ident("pos", LST_VECTOR)>>,
                 voidBody)

\* user functions: names are unique in a script
NamedFunctions ==
    {<<>>, <<VoidFunction("f")>>, <<VoidFunction("edefaultstate_entry")>>,
     <<VoidFunction("f"), VoidFunction("edefaultstate_entry")>>}

\* the handlers of a state: at least one, each event at most once
DefaultHandlers ==
    {<<state_entry(defaultState)>>, <<state_entry(defaultState), collision(defaultState)>>}
HandlersOf(state) ==
    {<<land_collision(state)>>, <<collision(state)>>,
     <<land_collision(state), collision(state)>>}

sState == Symbol("s", SYM_GLOBAL, LST_NULL)
slandState == Symbol("sland_", SYM_GLOBAL, LST_NULL)

\* the states after default: names are unique in a script
UserStates ==
    {<<>>}
    \cup {<<State(sState, hs)>> : hs \in HandlersOf(sState)}
    \cup {<<State(slandState, hs)>> : hs \in HandlersOf(slandState)}
    \cup {<<State(sState, hs), State(slandState, ht)>> :
             hs \in HandlersOf(sState), ht \in HandlersOf(slandState)}

NamedScripts ==
    {Script(fs, NodeList(<<State(defaultState, hd)>> \o us)) :
        fs \in NamedFunctions, hd \in DefaultHandlers, us \in UserStates}

InitNames ==
    /\ root \in NamedScripts
    /\ platform \in Platforms
    /\ work = <<W_visit(root)>>
    /\ mStr = <<>>
    /\ mTabs = 0
    /\ tabSetters = <<>>
    /\ visits = <<>>
    /\ lastVisit = NoVisit
    /\ fVal = F_ZERO
    /\ drv = DrvOff
    /\ sim = SimOff

NextNames ==
    \/ visitScript \/ visitGlobalFunction \/ visitEventHandler \/ visitChildren
    \/ visitCompoundStatement
    \/ ReturnFromVisit \/ doTabs \/ Emit \/ EnterBlock \/ LeaveBlock

SpecNames == InitNames /\ [][NextNames]_vars

-----------------------------------------------------------------------------
(* Properties of the method names (SpecNames) *)

\* what a token is made of: the characters of "def e" are those of "def "
\* and of "e", the characters of a name those of its parts; no part is the
\* concatenation of other parts, so two runs of parts spell the same text
\* exactly if they are the same run
Spelling(tok) ==
    CASE tok = "def e" -> <<"def ", "e">>
      [] tok = "sland_" -> <<"s", "land_">>
      [] tok = "land_collision" -> <<"land_", "collision">>
      [] tok = "edefaultstate_entry" -> <<"e", "default", "state_entry">>
      [] OTHER -> <<tok>>

Spelled(ts) == Flatten([i \in DOMAIN ts |-> Spelling(ts[i])])

\* a line that defines a method other than the constructor
IsMethodHeader(l) == l.c # <<>> /\ l.c[1] \in {"def ", "def e"}

\* the name a header line defines: what stands between "def " and "(self"
MethodName(l) ==
    LET open == CHOOSE i \in DOMAIN l.c : l.c[i] = "(self"
    IN  Tail(Spelled(SubSeq(l.c, 1, open - 1)))

RECURSIVE HandlersIn(_)
HandlersIn(states) ==
    IF states = <<>> THEN <<>> ELSE Head(states).children \o HandlersIn(Tail(states))

\* C12: the generated class defines one method per user function and per
\* event handler, and the names of these methods are pairwise distinct: the
\* names e<state><event> of two handlers differ, and none of them is the
\* name of a user function.
C12_MethodNamesDistinct ==
    Done =>
      LET headers == SelectSeq(Lines(mStr), IsMethodHeader)
          functions == SelectSeq(root.globals, IsGlobalFunction)
          handlers == HandlersIn(root.states.children)
      IN  /\ Len(headers) = Len(functions) + Len(handlers)
          /\ \A j, k \in DOMAIN headers :
                j # k => MethodName(headers[j]) # MethodName(headers[k])

====
